---- MODULE Spec2Model ----
(***************************************************************************)
(* Round orchestration and resolution engine of the "eugenia" EU game.     *)
(*                                                                         *)
(* The store is the SQLite database shared by every Streamlit session.     *)
(* A session runs one script at a time; a button handler reads the game    *)
(* meta at the top of the script, checks the button's guard, and then runs *)
(* its body.  Calls to the text-generation oracle are the points where a   *)
(* handler blocks, so other sessions interleave there; the two commits of  *)
(* apply_country_deltas are kept apart as well.                            *)
(*                                                                         *)
(* Two of the five countries of countries.py take part in the modelled     *)
(* game (Countries); the win-condition evaluator is modelled over all      *)
(* five definitions.  Strings with umlauts are written in ASCII            *)
(* (laender, kohaesion_delta, militaer, ...).                              *)
(***************************************************************************)
EXTENDS Integers, Sequences, FiniteSets, TLC

(***************************************************************************)
(* Bounds of the model.                                                    *)
(***************************************************************************)
\* Rounds the game master starts; the game stops in setup of MaxRound + 1.
MaxRound == 1
\* World generations clicked in a run that explores the generation races.
MaxGens == 2
\* Candidate generations clicked in a run that plays a round.
MaxProposals == 4
\* Resolutions clicked in a run that plays a round.
MaxResolves == 2
\* Resets clicked in a run that explores the generation races.
MaxResets == 1
\* Proposals in the run in which the players move the aggressiveness slider.
MaxSliderProposals == 2

(***************************************************************************)
(* Program constants.                                                      *)
(***************************************************************************)
\* Faulty variant: the slot limit off by one.
MaxSlotsOffByOne == 3 + 1
\* Candidates a domain block accepts per round (ui/panels.py).
MaxSlots == 3
NumExternalActors == 3
DefaultCohesion == 75
DecayThreatFront == 2
DecayOther == 3
FallbackDomesticCraziness == 25
DefaultAggrForeign == 55
DefaultAggrDomestic == 45

Actors == <<"USA", "Russia", "China">>
ActorSet == {"USA", "Russia", "China"}
Domains == {"foreign", "domestic"}
MetricKeys == {"military", "stability", "economy", "diplomatic_influence", "public_approval"}
PressureKeys == {"threat_level", "frontline_pressure", "energy_pressure",
                 "migration_pressure", "disinfo_pressure", "trade_war_pressure"}
Phases == {"setup", "external_generated", "actions_published", "game_over"}

\* Seed values and win conditions of countries.py.
COUNTRY_DEFS ==
  [Germany |-> [military |-> 70, stability |-> 90, economy |-> 95,
                diplomatic_influence |-> 85, public_approval |-> 75,
                win_conditions |-> <<[metric |-> "economy", op |-> ">=", value |-> 97],
                                     [metric |-> "stability", op |-> ">=", value |-> 92],
                                     [metric |-> "diplomatic_influence", op |-> ">=", value |-> 88],
                                     [metric |-> "eu_cohesion", op |-> ">=", value |-> 80]>>],
   Italy |-> [military |-> 65, stability |-> 60, economy |-> 70,
              diplomatic_influence |-> 65, public_approval |-> 55,
              win_conditions |-> <<[metric |-> "economy", op |-> ">=", value |-> 80],
                                   [metric |-> "stability", op |-> ">=", value |-> 70],
                                   [metric |-> "public_approval", op |-> ">=", value |-> 65],
                                   [metric |-> "eu_cohesion", op |-> ">=", value |-> 60]>>],
   France |-> [military |-> 85, stability |-> 75, economy |-> 80,
               diplomatic_influence |-> 90, public_approval |-> 65,
               win_conditions |-> <<[metric |-> "military", op |-> ">=", value |-> 90],
                                    [metric |-> "diplomatic_influence", op |-> ">=", value |-> 92],
                                    [metric |-> "stability", op |-> ">=", value |-> 78],
                                    [metric |-> "eu_cohesion", op |-> ">=", value |-> 75]>>],
   Poland |-> [military |-> 90, stability |-> 70, economy |-> 75,
               diplomatic_influence |-> 70, public_approval |-> 80,
               win_conditions |-> <<[metric |-> "military", op |-> ">=", value |-> 95],
                                    [metric |-> "public_approval", op |-> ">=", value |-> 85],
                                    [metric |-> "stability", op |-> ">=", value |-> 75],
                                    [metric |-> "eu_cohesion", op |-> ">=", value |-> 70]>>],
   Hungary |-> [military |-> 60, stability |-> 80, economy |-> 65,
                diplomatic_influence |-> 55, public_approval |-> 85,
                win_conditions |-> <<[metric |-> "public_approval", op |-> ">=", value |-> 80],
                                     [metric |-> "stability", op |-> ">=", value |-> 75],
                                     [metric |-> "economy", op |-> ">=", value |-> 65],
                                     [metric |-> "eu_cohesion", op |-> "<=", value |-> 45]>>]]

\* The countries of the modelled game, in definition order (app.py: list(COUNTRY_DEFS.keys())).
Countries == <<"Germany", "Italy">>
CountrySet == {Countries[i] : i \in DOMAIN Countries}

\* One candidate for every domain block of every country: what a round needs
\* before it can be resolved.
CandidatesOfARound == Len(Countries) * Cardinality(Domains)

\* The click budgets of the runs explored: one run races world generations,
\* publication and reset, one explores the candidates and locks of the player
\* phase, one plays a whole round with both game masters resolving, and one
\* plays a round with one resolution and resets; in one the players move the
\* aggressiveness slider, and in the last a round is resolved while one more
\* candidate generation than the round needs is clicked.
Budgets ==
  { [gens |-> MaxGens, props |-> 0, resolves |-> 0, resets |-> MaxResets, sliders |-> 0],
    [gens |-> 1, props |-> MaxProposals, resolves |-> 0, resets |-> 0, sliders |-> 0],
    [gens |-> 1, props |-> MaxSliderProposals, resolves |-> 0, resets |-> 0, sliders |-> 1],
    [gens |-> 1, props |-> CandidatesOfARound, resolves |-> MaxResolves, resets |-> 0, sliders |-> 0],
    [gens |-> 1, props |-> CandidatesOfARound, resolves |-> 1, resets |-> MaxResets, sliders |-> 0],
    [gens |-> 1, props |-> CandidatesOfARound + 1, resolves |-> 1, resets |-> 0, sliders |-> 0] }

SeedMetrics(c) == [k \in MetricKeys |-> COUNTRY_DEFS[c][k]]

\* EU_DEFAULT of countries.py and the pressure values the reset writes.
EU_DEFAULT ==
  [cohesion |-> DefaultCohesion, global_context |-> "default"]
SeedPressures ==
  [threat_level |-> 35, frontline_pressure |-> 30, energy_pressure |-> 25,
   migration_pressure |-> 25, disinfo_pressure |-> 25, trade_war_pressure |-> 25]

(***************************************************************************)
(* Pure helpers.                                                           *)
(***************************************************************************)
Max(a, b) == IF a >= b THEN a ELSE b
Min(a, b) == IF a <= b THEN a ELSE b

\* dict.get(k, default)
Get(f, k, default) == IF k \in DOMAIN f THEN f[k] ELSE default

clamp_int(x, lo, hi) == Max(lo, Min(hi, x))

\* Python round(n / 10): round half to even.
PyRoundTenth(n) ==
  LET q == n \div 10
      r == n % 10
  IN  IF r < 5 THEN q
      ELSE IF r > 5 THEN q + 1
      ELSE IF q % 2 = 0 THEN q ELSE q + 1

\* Faulty variant: the deltas are not floored at zero.
_auto_modifiers_unfloored(actor, craziness) ==
  LET c == Max(0, Min(100, craziness))
      s == PyRoundTenth(c - 50)
  IN  IF actor = "Russia" THEN
        [eu_cohesion_delta |-> -s, threat_delta |-> s + 1,
         frontline_delta |-> s, energy_delta |-> s,
         migration_delta |-> s - 1, disinfo_delta |-> s + 1,
         trade_war_delta |-> s - 1]
      ELSE IF actor = "China" THEN
        [eu_cohesion_delta |-> -(s - 1), threat_delta |-> s - 1,
         frontline_delta |-> s - 2, energy_delta |-> s - 1,
         migration_delta |-> s - 2, disinfo_delta |-> s,
         trade_war_delta |-> s + 1]
      ELSE
        [eu_cohesion_delta |-> -(s - 2), threat_delta |-> s - 1,
         frontline_delta |-> s - 1, energy_delta |-> s - 2,
         migration_delta |-> s - 2, disinfo_delta |-> s - 2,
         trade_war_delta |-> s]

_auto_modifiers_from_craziness(actor, craziness) ==
  LET c == Max(0, Min(100, craziness))
      s == PyRoundTenth(c - 50)
  IN  IF actor = "Russia" THEN
        [eu_cohesion_delta |-> -Max(0, s), threat_delta |-> Max(0, s + 1),
         frontline_delta |-> Max(0, s), energy_delta |-> Max(0, s),
         migration_delta |-> Max(0, s - 1), disinfo_delta |-> Max(0, s + 1),
         trade_war_delta |-> Max(0, s - 1)]
      ELSE IF actor = "China" THEN
        [eu_cohesion_delta |-> -Max(0, s - 1), threat_delta |-> Max(0, s - 1),
         frontline_delta |-> Max(0, s - 2), energy_delta |-> Max(0, s - 1),
         migration_delta |-> Max(0, s - 2), disinfo_delta |-> Max(0, s),
         trade_war_delta |-> Max(0, s + 1)]
      ELSE
        [eu_cohesion_delta |-> -Max(0, s - 2), threat_delta |-> Max(0, s - 1),
         frontline_delta |-> Max(0, s - 1), energy_delta |-> Max(0, s - 2),
         migration_delta |-> Max(0, s - 2), disinfo_delta |-> Max(0, s - 2),
         trade_war_delta |-> Max(0, s)]

RECURSIVE SumMods(_, _, _)
SumMods(moves, key, i) ==
  IF i > Len(moves) THEN 0
  ELSE Get(moves[i].modifiers, key, 0) + SumMods(moves, key, i + 1)

\* The unclamped sums of the moves' modifiers, and the narrative when non-empty.
apply_external_modifiers_to_eu(eu_before, moves_obj) ==
  LET moves == moves_obj.moves
      summed ==
        [eu_before EXCEPT
           !.cohesion = @ + SumMods(moves, "eu_cohesion_delta", 1),
           !.threat_level = @ + SumMods(moves, "threat_delta", 1),
           !.frontline_pressure = @ + SumMods(moves, "frontline_delta", 1),
           !.energy_pressure = @ + SumMods(moves, "energy_delta", 1),
           !.migration_pressure = @ + SumMods(moves, "migration_delta", 1),
           !.disinfo_pressure = @ + SumMods(moves, "disinfo_delta", 1),
           !.trade_war_pressure = @ + SumMods(moves, "trade_war_delta", 1)]
  IN  IF moves_obj.global_context # ""
      THEN [summed EXCEPT !.global_context = moves_obj.global_context]
      ELSE summed

\* Faulty variant: the decay also lowers the cohesion.
decay_pressures_and_cohesion(eu) ==
  [eu EXCEPT !.cohesion = @ - DecayOther,
             !.threat_level = @ - DecayThreatFront,
             !.frontline_pressure = @ - DecayThreatFront,
             !.energy_pressure = @ - DecayOther,
             !.migration_pressure = @ - DecayOther,
             !.disinfo_pressure = @ - DecayOther,
             !.trade_war_pressure = @ - DecayOther]

\* Faulty variant: a channel is not lowered below zero.
decay_pressures_clamped(eu) ==
  [eu EXCEPT !.threat_level = Max(0, @ - DecayThreatFront),
             !.frontline_pressure = Max(0, @ - DecayThreatFront),
             !.energy_pressure = Max(0, @ - DecayOther),
             !.migration_pressure = Max(0, @ - DecayOther),
             !.disinfo_pressure = Max(0, @ - DecayOther),
             !.trade_war_pressure = Max(0, @ - DecayOther)]

decay_pressures(eu) ==
  [eu EXCEPT !.threat_level = @ - DecayThreatFront,
             !.frontline_pressure = @ - DecayThreatFront,
             !.energy_pressure = @ - DecayOther,
             !.migration_pressure = @ - DecayOther,
             !.disinfo_pressure = @ - DecayOther,
             !.trade_war_pressure = @ - DecayOther]

(***************************************************************************)
(* Win-condition evaluator (win.py).                                       *)
(***************************************************************************)
_get_value(metric_key, country_metrics, eu) ==
  IF metric_key = "eu_cohesion" THEN eu.cohesion ELSE country_metrics[metric_key]

\* Faulty variant: the strict operators read as the non-strict ones.
_compare_nonstrict(current, op, target) ==
  CASE op = ">=" -> current >= target
    [] op = "<=" -> current <= target
    [] op = ">"  -> current >= target
    [] op = "<"  -> current <= target
    [] op = "==" -> current = target

_compare(current, op, target) ==
  CASE op = ">=" -> current >= target
    [] op = "<=" -> current <= target
    [] op = ">"  -> current > target
    [] op = "<"  -> current < target
    [] op = "==" -> current = target

\* The list of per-condition results (the ok flags), in condition order;
\* a condition without "op" is read with ">=".
ConditionResults(conds, country_metrics, eu) ==
  [i \in DOMAIN conds |->
     _compare(_get_value(conds[i].metric, country_metrics, eu),
              Get(conds[i], "op", ">="), conds[i].value)]

\* country_defs.get(country_key, {}).get("win_conditions") or []
win_conditions_of(country_key, country_defs) ==
  LET defs == Get(country_defs, country_key, [k \in {} |-> 0])
  IN  Get(defs, "win_conditions", <<>>)

\* Faulty variant: an empty list of results counts as "all conditions hold".
evaluate_country_win_conditions_vacuously(country_key, country_metrics, eu, country_defs) ==
  LET results == ConditionResults(win_conditions_of(country_key, country_defs),
                                  country_metrics, eu)
  IN  [is_winner |-> \A i \in DOMAIN results : results[i], results |-> results]

evaluate_country_win_conditions(country_key, country_metrics, eu, country_defs) ==
  LET results == ConditionResults(win_conditions_of(country_key, country_defs),
                                  country_metrics, eu)
  IN  [is_winner |-> (Len(results) > 0) /\ (\A i \in DOMAIN results : results[i]),
       results |-> results]

evaluate_all_countries(all_country_metrics, eu, country_defs) ==
  [c \in DOMAIN all_country_metrics |->
     evaluate_country_win_conditions(c, all_country_metrics[c], eu, country_defs)]

\* Percentage of satisfied conditions (floor of the two-decimal value of the code).
progress_from_conditions(results) ==
  IF Len(results) = 0 THEN 0
  ELSE (Cardinality({i \in DOMAIN results : results[i]}) * 100) \div Len(results)

(***************************************************************************)
(* The oracle and the parse / repair / validate code of the call sites.    *)
(* A raw response is text; what matters of it is whether parse_json_maybe  *)
(* finds a JSON value in it and which value.                               *)
(***************************************************************************)
RawKinds == {"json", "fenced", "garbage", "empty"}

\* utils.parse_json_maybe: fences are stripped; text without JSON raises.
parse_json_maybe(raw) ==
  IF raw.kind \in {"json", "fenced"}
  THEN [ok |-> TRUE, obj |-> raw.obj]
  ELSE [ok |-> FALSE]

\* try: parse_json_maybe(raw) / except: _repair_to_valid_json(...), which parses
\* the repair response and lets its exception propagate.
\* calls counts the oracle calls issued; used_repair whether the repair ran.
ParseOrRepair(first, repair) ==
  LET p1 == parse_json_maybe(first)
      p2 == parse_json_maybe(repair)
  IN  IF p1.ok THEN [ok |-> TRUE, obj |-> p1.obj, used_repair |-> FALSE, calls |-> 1]
      ELSE IF p2.ok THEN [ok |-> TRUE, obj |-> p2.obj, used_repair |-> TRUE, calls |-> 2]
      ELSE [ok |-> FALSE, used_repair |-> TRUE, calls |-> 2]

Failure == [ok |-> FALSE]

\* ---- delta bundles and objects the oracle may answer with ----
DeltaKeys == {"militaer", "stabilitaet", "wirtschaft", "diplomatie", "oeffentliche_zustimmung"}
SmallDeltas == [militaer |-> 3, stabilitaet |-> -2, wirtschaft |-> 1, diplomatie |-> 0,
                oeffentliche_zustimmung |-> -1]
HugeUp == [k \in DeltaKeys |-> 150]
HugeDown == [k \in DeltaKeys |-> -150]
\* Deltas without the keys militaer and diplomatie (read as 0) that lift Italy
\* over its win conditions.
ItalyWins == [wirtschaft |-> 150, stabilitaet |-> 150, oeffentliche_zustimmung |-> 150]
\* A JSON null or {} entry: "result['laender'].get(c) or {}" reads both as {}.
NullEntry == [k \in {} |-> 0]

\* Answers of the resolution oracle that pass the validation.
ValidResolveObjs ==
  { [eu |-> [kohaesion_delta |-> -2, global_context |-> "resolved"],
     laender |-> [Germany |-> SmallDeltas, Italy |-> ItalyWins]],
    [eu |-> [kohaesion_delta |-> 120, global_context |-> "resolved"],
     laender |-> [Germany |-> HugeUp, Italy |-> HugeUp]],
    [eu |-> [kohaesion_delta |-> -120, global_context |-> ""],
     laender |-> [Germany |-> HugeDown, Italy |-> NullEntry]] }

\* Answers that parse and fail the validation: no eu, no laender, a country missing.
InvalidResolveObjs ==
  { [laender |-> [Germany |-> SmallDeltas, Italy |-> SmallDeltas]],
    [eu |-> [kohaesion_delta |-> -2, global_context |-> "resolved"]],
    [eu |-> [kohaesion_delta |-> -2, global_context |-> "resolved"],
     laender |-> [Germany |-> SmallDeltas]] }

ResolveObjs == ValidResolveObjs \cup InvalidResolveObjs

OracleMods == [eu_cohesion_delta |-> 9, threat_delta |-> -9]

ExternalObjs ==
  { [global_context |-> "world",
     moves |-> <<[actor |-> "Russia", craziness |-> 7, headline |-> "h", quote |-> "q",
                  modifiers |-> OracleMods],
                 [actor |-> "USA", craziness |-> 7, headline |-> "h", quote |-> "q",
                  modifiers |-> OracleMods],
                 [actor |-> "China", headline |-> "h", modifiers |-> OracleMods]>>],
    [global_context |-> "world",
     moves |-> <<[actor |-> "Russia", craziness |-> 7, headline |-> "h", quote |-> "q"],
                 [actor |-> "USA", craziness |-> 7, headline |-> "h", quote |-> "q"]>>],
    [global_context |-> "world",
     moves |-> <<[actor |-> "Russia", craziness |-> 7, headline |-> "", quote |-> "q"],
                 [actor |-> "USA", craziness |-> 7, headline |-> "h", quote |-> "q"],
                 [actor |-> "China", craziness |-> 7, headline |-> "h", quote |-> "q"]>>],
    [global_context |-> "world"] }

\* A JSON value that is no object (a string, a number, an array).
JsonText(x) == [json_text |-> x]
is_dict(v) == "json_text" \notin DOMAIN v

\* The craziness of a domestic event is kept as the token the oracle wrote;
\* Numerals are the tokens int() converts.
Numerals == ("40" :> 40) @@ ("0" :> 0)

DomesticObjs ==
  { [events |-> [Germany |-> [craziness |-> "40", headline |-> "h", details |-> "d"]]],
    [headlines |-> "none"],
    [events |-> JsonText("none")],
    [events |-> [Germany |-> [craziness |-> "hoch", headline |-> "h", details |-> "d"]]],
    [events |-> [Germany |-> JsonText("Streik")]] }

PolicyObjs ==
  { [aktion |-> "plan", aggressiveness |-> 99,
     folgen |-> [land |-> SmallDeltas, eu |-> [kohaesion |-> 1], global_context |-> "x"]],
    [aktion |-> "plan"],
    [aktion |-> "plan", folgen |-> [land |-> SmallDeltas]] }

SummaryObjs == { [summary |-> "- s"], [text |-> "- s"] }

VariantObj ==
  [aktion |-> "plan",
   folgen |-> [land |-> SmallDeltas, eu |-> [kohaesion |-> 1], global_context |-> "x"]]
ActionsObjs ==
  { [aggressiv |-> VariantObj, moderate |-> VariantObj, passiv |-> VariantObj],
    [aggressiv |-> VariantObj, moderate |-> VariantObj],
    [aggressiv |-> VariantObj, moderate |-> VariantObj, passiv |-> [aktion |-> "plan"]] }

\* The second call is issued only when the first response does not parse.
NoReply == [kind |-> "none"]

RawOf(kinds, objs) ==
  {[kind |-> k, obj |-> o] : k \in kinds \cap {"json", "fenced"}, o \in objs}
    \cup {[kind |-> k] : k \in kinds \ {"json", "fenced"}}

\* The pairs <<first response, repair response>> of one pipeline run.
RepliesOf(kinds, objs) ==
  {<<f, r>> : f \in RawOf(kinds, objs), r \in RawOf(kinds, objs) \cup {NoReply}} \ 
    {q \in RawOf(kinds, objs) \X (RawOf(kinds, objs) \cup {NoReply}) :
       parse_json_maybe(q[1]).ok <=> q[2] # NoReply}

\* The responses the handlers of the game are run against.
Replies(objs) == RepliesOf({"json", "garbage"}, objs)

\* The responses of each call site of the game.
ExternalReplies == Replies(ExternalObjs)
DomesticReplies == Replies(DomesticObjs)
PolicyReplies == Replies(PolicyObjs)
ResolveReplies == Replies(ResolveObjs)
SummaryReplies == Replies(SummaryObjs)

\* ---- ai_external.generate_external_moves ----
\* The em dash the code stores for a missing quote.
QuoteSentinel == "(dash)"

\* Faulty variant: the oracle's craziness is kept.
HardenMove_keeping_oracle(m, wanted) ==
  [actor |-> m.actor,
   craziness |-> Get(m, "craziness", IF m.actor \in DOMAIN wanted THEN wanted[m.actor] ELSE 0),
   headline |-> Get(m, "headline", ""),
   quote |-> IF Get(m, "quote", "") = "" THEN QuoteSentinel ELSE m.quote,
   modifiers |-> Get(m, "modifiers", NullEntry)]

HardenMove(m, wanted) ==
  [actor |-> m.actor,
   craziness |-> IF m.actor \in DOMAIN wanted THEN wanted[m.actor] ELSE Get(m, "craziness", 0),
   headline |-> Get(m, "headline", ""),
   quote |-> IF Get(m, "quote", "") = "" THEN QuoteSentinel ELSE m.quote,
   modifiers |-> Get(m, "modifiers", NullEntry)]

generate_external_moves(craziness_by_actor, first, repair) ==
  LET p == ParseOrRepair(first, repair)
      moves == Get(p.obj, "moves", <<>>)
      actors == {moves[i].actor : i \in DOMAIN moves}
  IN  IF ~p.ok THEN Failure
      ELSE IF actors # ActorSet THEN Failure
      ELSE IF \E i \in DOMAIN moves : Get(moves[i], "headline", "") = "" THEN Failure
      ELSE [ok |-> TRUE,
            ret |-> [global_context |-> Get(p.obj, "global_context", ""),
                     moves |-> [i \in DOMAIN moves |-> HardenMove(moves[i], craziness_by_actor)]]]

\* ---- ai_external.generate_domestic_events ----
FallbackDomestic ==
  [craziness |-> FallbackDomesticCraziness,
   headline |-> "Regierung unter Druck", details |-> ""]

\* int(e.get("craziness", 0) or 0)
py_int_ok(token) == token = "" \/ token \in DOMAIN Numerals
py_int(token) == IF token = "" THEN 0 ELSE Numerals[token]

\* The harden loop raises on an entry that is no object (e.get) and on a
\* craziness int() does not convert.
HardenDomesticOk(e) == is_dict(e) /\ py_int_ok(Get(e, "craziness", ""))

HardenDomestic(e) ==
  [headline |-> Get(e, "headline", ""), details |-> Get(e, "details", ""),
   craziness |-> py_int(Get(e, "craziness", ""))]

\* Faulty variant: a missing country fails the batch instead of being filled in.
generate_domestic_events_without_fallback(countries, first, repair) ==
  LET p == ParseOrRepair(first, repair)
  IN  IF ~p.ok THEN Failure
      ELSE IF "events" \notin DOMAIN p.obj THEN Failure
      ELSE IF ~is_dict(p.obj.events) THEN Failure
      ELSE IF countries \ DOMAIN p.obj.events # {} THEN Failure
      ELSE IF \E c \in countries : ~HardenDomesticOk(p.obj.events[c]) THEN Failure
      ELSE [ok |-> TRUE,
            ret |-> [events |-> [c \in countries |-> HardenDomestic(p.obj.events[c])]]]

generate_domestic_events(countries, first, repair) ==
  LET p == ParseOrRepair(first, repair)
  IN  IF ~p.ok THEN Failure
      ELSE IF "events" \notin DOMAIN p.obj THEN Failure
      ELSE IF ~is_dict(p.obj.events) THEN Failure
      ELSE IF \E c \in countries \cap DOMAIN p.obj.events :
                ~HardenDomesticOk(p.obj.events[c]) THEN Failure
      ELSE [ok |-> TRUE,
            ret |-> [events |->
                       [c \in countries |->
                          IF c \in DOMAIN p.obj.events
                          THEN HardenDomestic(p.obj.events[c])
                          ELSE FallbackDomestic]]]

\* ---- ui/panels._generate_policy_candidate: returns (obj, raw) ----
_generate_policy_candidate(first, repair) ==
  LET p == ParseOrRepair(first, repair)
  IN  IF ~p.ok THEN Failure
      ELSE IF "aktion" \notin DOMAIN p.obj \/ "folgen" \notin DOMAIN p.obj THEN Failure
      ELSE IF {"land", "eu", "global_context"} \ DOMAIN p.obj.folgen # {} THEN Failure
      ELSE [ok |-> TRUE, ret |-> <<p.obj, first>>]

\* ---- ai_round.generate_actions_for_country: returns (obj, raw, used_repair) ----
VariantOk(v) ==
  /\ "aktion" \in DOMAIN v /\ "folgen" \in DOMAIN v
  /\ {"land", "eu", "global_context"} \subseteq DOMAIN v.folgen

generate_actions_for_country(first, repair) ==
  LET p == ParseOrRepair(first, repair)
  IN  IF ~p.ok THEN Failure
      ELSE IF \E k \in {"aggressiv", "moderate", "passiv"} :
                k \notin DOMAIN p.obj \/ ~VariantOk(p.obj[k]) THEN Failure
      ELSE [ok |-> TRUE, ret |-> <<p.obj, first, p.used_repair>>]

\* Faulty variant: the loop over the countries is missing from the validation.
resolve_round_without_country_check(country_keys, external_events, first, repair) ==
  LET p == ParseOrRepair(first, repair)
  IN  IF external_events = {} THEN Failure
      ELSE IF ~p.ok THEN Failure
      ELSE IF "eu" \notin DOMAIN p.obj \/ "laender" \notin DOMAIN p.obj THEN Failure
      ELSE [ok |-> TRUE, ret |-> p.obj]

\* ---- ai_round.resolve_round_all_countries: returns obj ----
\* The prompt is built before the oracle is called; with no external events
\* domestic_str is unbound there and the call raises.
resolve_round_all_countries(country_keys, external_events, first, repair) ==
  LET p == ParseOrRepair(first, repair)
  IN  IF external_events = {} THEN Failure
      ELSE IF ~p.ok THEN Failure
      ELSE IF "eu" \notin DOMAIN p.obj \/ "laender" \notin DOMAIN p.obj THEN Failure
      ELSE IF country_keys \ DOMAIN p.obj.laender # {} THEN Failure
      ELSE [ok |-> TRUE, ret |-> p.obj]

\* ---- ai_round.generate_round_summary: returns the summary string ----
SummarySentinel == "- (Keine Summary generiert)"

generate_round_summary(first, repair) ==
  LET p == ParseOrRepair(first, repair)
  IN  IF ~p.ok THEN Failure
      ELSE [ok |-> TRUE,
            ret |-> IF Get(p.obj, "summary", "") = "" THEN SummarySentinel ELSE p.obj.summary]


(***************************************************************************)
(* The store and the sessions.                                             *)
(***************************************************************************)
VARIABLES
  game_meta,          \* [round, phase, winner_country, winner_round]
  eu_state,           \* [cohesion, global_context, six pressure channels]
  country_metrics,    \* table countries: country -> metric -> value
  external_events,    \* rows [round, actor, craziness, headline, quote, modifiers]
  domestic_events,    \* rows [round, country, craziness, headline, details]
  policy_candidates,  \* rows [round, country, domain, slot, aggressiveness, action_text, impact]
  policy_locks,       \* rows [round, country, domain, slot]
  turn_history,       \* sequence of rows [country, round, action_public, global_context, deltas]
  country_snapshots,  \* rows [round, country, metrics, victory_progress, is_winner]
  round_summaries,    \* rows [round, summary]
  pc,                 \* session -> position of its running script
  loc,                \* session -> locals of its running handler
  gens,               \* world generations clicked
  props,              \* candidate generations clicked
  resolves,           \* resolutions clicked
  resets,             \* resets clicked
  limits              \* the click budget of the run

store == <<game_meta, eu_state, country_metrics, external_events, domestic_events,
           policy_candidates, policy_locks, turn_history, country_snapshots, round_summaries>>
vars == <<game_meta, eu_state, country_metrics, external_events, domestic_events,
          policy_candidates, policy_locks, turn_history, country_snapshots, round_summaries,
          pc, loc, gens, props, resolves, resets, limits>>

GMSessions == {"gm1", "gm2"}
PlayerSessions == {"p1"}
Sessions == GMSessions \cup PlayerSessions
is_gm(s) == s \in GMSessions
\* The country a session acts for in render_player_view: the assigned country of
\* a player, any country for a game master simulating the player view.
effective_countries(s) ==
  IF is_gm(s) THEN CountrySet ELSE {"Germany"}

NoWinner == "none"
NoLocals == [op |-> "none"]

\* ---- db.py ----
set_game_meta(meta, round_no, phase) ==
  [meta EXCEPT !.round = round_no, !.phase = phase]

set_game_over(meta, winner_country, winner_round) ==
  [meta EXCEPT !.phase = "game_over", !.winner_country = winner_country,
               !.winner_round = winner_round]

clear_game_over(meta) ==
  [meta EXCEPT !.winner_country = NoWinner, !.winner_round = 0]

\* The pressure columns are stored as given.
StorePressures(eu) == [k \in PressureKeys |-> eu[k]]

set_eu_state(eu) ==
  [k \in PressureKeys \cup {"cohesion", "global_context"} |->
     IF k = "cohesion" THEN clamp_int(eu.cohesion, 0, 100)
     ELSE IF k = "global_context" THEN eu.global_context
     ELSE StorePressures(eu)[k]]

load_all_country_metrics(rows, countries) == [c \in countries |-> rows[c]]

DeltaOf(metric) ==
  CASE metric = "military" -> "militaer"
    [] metric = "stability" -> "stabilitaet"
    [] metric = "economy" -> "wirtschaft"
    [] metric = "diplomatic_influence" -> "diplomatie"
    [] metric = "public_approval" -> "oeffentliche_zustimmung"

\* apply_country_deltas, first commit: the unclamped sums.
apply_country_deltas_add(row, deltas) ==
  [k \in MetricKeys |-> row[k] + Get(deltas, DeltaOf(k), 0)]

\* Faulty variant: the row is written back as read.
apply_country_deltas_unclamped(row) == row

\* apply_country_deltas, second commit: the row that was read back, clamped.
apply_country_deltas_clamp(row) ==
  [k \in MetricKeys |-> clamp_int(row[k], 0, 100)]

insert_turn_history(history, country, round_no, action_public, global_context, deltas) ==
  Append(history,
         [country |-> country, round |-> round_no, action_public |-> action_public,
          global_context |-> global_context,
          deltas |-> [k \in DeltaKeys |-> Get(deltas, k, 0)]])

\* Faulty variant: the rows are left as they are.
reset_all_countries_keeping(rows) == rows

reset_all_countries(rows) == [c \in DOMAIN rows |-> SeedMetrics(c)]

\* DELETE ... WHERE round = ?
DeleteRound(rows, round_no) == {r \in rows : r.round # round_no}

\* Faulty variant: the rows of the round are kept.
clear_round_data_keeping(rows, round_no) == rows

clear_round_data(rows, round_no) == DeleteRound(rows, round_no)

clear_external_events(rows, round_no) == DeleteRound(rows, round_no)
clear_domestic_events(rows, round_no) == DeleteRound(rows, round_no)

upsert_external_event(rows, round_no, actor, headline, modifiers, quote, craziness) ==
  {r \in rows : ~(r.round = round_no /\ r.actor = actor)}
    \cup {[round |-> round_no, actor |-> actor, headline |-> headline,
           modifiers |-> modifiers, quote |-> quote, craziness |-> craziness]}

upsert_domestic_event(rows, round_no, country, headline, details, craziness) ==
  {r \in rows : ~(r.round = round_no /\ r.country = country)}
    \cup {[round |-> round_no, country |-> country, headline |-> headline,
           details |-> details, craziness |-> craziness]}

get_external_events(rows, round_no) == {r \in rows : r.round = round_no}
get_domestic_events(rows, round_no) == {r \in rows : r.round = round_no}

get_policy_candidates(rows, round_no, country, domain) ==
  {r \in rows : r.round = round_no /\ r.country = country /\ r.domain = domain}

count_policy_candidates(rows, round_no, country, domain) ==
  Cardinality(get_policy_candidates(rows, round_no, country, domain))

upsert_policy_candidate(rows, round_no, country, domain, slot, aggressiveness, action_text, impact) ==
  {r \in rows : ~(r.round = round_no /\ r.country = country /\ r.domain = domain /\ r.slot = slot)}
    \cup {[round |-> round_no, country |-> country, domain |-> domain, slot |-> slot,
           aggressiveness |-> aggressiveness, action_text |-> action_text, impact |-> impact]}

lock_policy_slot(rows, round_no, country, domain, slot) ==
  {r \in rows : ~(r.round = round_no /\ r.country = country /\ r.domain = domain)}
    \cup {[round |-> round_no, country |-> country, domain |-> domain, slot |-> slot]}

\* The locked slot of (round, country, domain), 0 when there is none.
get_policy_lock(rows, round_no, country, domain) ==
  LET hit == {r \in rows : r.round = round_no /\ r.country = country /\ r.domain = domain}
  IN  IF hit = {} THEN 0 ELSE (CHOOSE r \in hit : TRUE).slot

all_policies_locked(rows, round_no, countries) ==
  \A c \in countries : \A d \in Domains : get_policy_lock(rows, round_no, c, d) # 0

upsert_country_snapshot(rows, round_no, country, metrics, victory_progress, is_winner) ==
  {r \in rows : ~(r.round = round_no /\ r.country = country)}
    \cup {[round |-> round_no, country |-> country, metrics |-> metrics,
           victory_progress |-> victory_progress, is_winner |-> is_winner]}

upsert_round_summary(rows, round_no, summary) ==
  {r \in rows : r.round # round_no} \cup {[round |-> round_no, summary |-> summary]}

\* ---- app.py, top of every script run ----
\* An empty narrative makes the script write EU_DEFAULT's cohesion and narrative.
ScriptTop(eu) ==
  IF eu.global_context = ""
  THEN set_eu_state([eu EXCEPT !.cohesion = EU_DEFAULT.cohesion,
                               !.global_context = EU_DEFAULT.global_context])
  ELSE eu

Init ==
  /\ game_meta = [round |-> 1, phase |-> "setup", winner_country |-> NoWinner, winner_round |-> 0]
  /\ eu_state = ScriptTop([k \in PressureKeys \cup {"cohesion", "global_context"} |->
                             IF k = "cohesion" THEN DefaultCohesion
                             ELSE IF k = "global_context" THEN ""
                             ELSE SeedPressures[k]])
  /\ country_metrics = [c \in CountrySet |-> SeedMetrics(c)]
  /\ external_events = {}
  /\ domestic_events = {}
  /\ policy_candidates = {}
  /\ policy_locks = {}
  /\ turn_history = <<>>
  /\ country_snapshots = {}
  /\ round_summaries = {}
  /\ pc = [s \in Sessions |-> "idle"]
  /\ loc = [s \in Sessions |-> NoLocals]
  /\ gens = 0
  /\ props = 0
  /\ resolves = 0
  /\ resets = 0
  /\ limits \in Budgets


(***************************************************************************)
(* Game-master flow (logic/gm_flow.render_gm_controls).                    *)
(***************************************************************************)
\* Slider settings the game master chooses between.
CrazinessChoices ==
  { [USA |-> 74, Russia |-> 50, China |-> 60] }

have_external(round_no) ==
  Cardinality(get_external_events(external_events, round_no)) = NumExternalActors
have_domestic(round_no) ==
  Cardinality(get_domestic_events(domestic_events, round_no)) = Len(Countries)
have_gm_inputs(round_no) == have_external(round_no) /\ have_domestic(round_no)

inputs_disabled(phase) == phase = "actions_published"
gen_disabled(phase) == inputs_disabled(phase)
\* Faulty variant: the publish button is never enabled.
publish_always_disabled(phase, round_no) == TRUE

publish_disabled(phase, round_no) == phase = "actions_published" \/ ~have_gm_inputs(round_no)
\* Faulty variant: the lock test is missing from the guard.
resolve_disabled_ignoring_locks(phase, round_no) == ~(phase = "actions_published")

resolve_disabled(phase, round_no) ==
  ~(phase = "actions_published" /\ all_policies_locked(policy_locks, round_no, CountrySet))

Fail(s, site) ==
  /\ pc' = [pc EXCEPT ![s] = "failed"]
  /\ loc' = [loc EXCEPT ![s] = [op |-> "failed", site |-> site, round_no |-> loc[s].round_no]]

Finish(s) ==
  /\ pc' = [pc EXCEPT ![s] = "idle"]
  /\ loc' = [loc EXCEPT ![s] = NoLocals]

\* The session looks at the error and its script runs again.
Dismiss(s) ==
  /\ pc[s] = "failed"
  /\ Finish(s)
  /\ eu_state' = ScriptTop(eu_state)
  /\ UNCHANGED <<game_meta, country_metrics, external_events, domestic_events,
                 policy_candidates, policy_locks, turn_history, country_snapshots,
                 round_summaries, gens, props, resolves, resets, limits>>

\* "Jetzt generieren (KI)": script top, guard, the reads before the first oracle call.
ClickGenerate(s) ==
  /\ is_gm(s) /\ pc[s] = "idle"
  /\ game_meta.phase # "game_over"
  /\ ~gen_disabled(game_meta.phase)
  /\ game_meta.round <= MaxRound
  /\ gens < limits.gens
  /\ \E cz \in CrazinessChoices :
       loc' = [loc EXCEPT ![s] = [op |-> "generate", round_no |-> game_meta.round,
                                  eu_before |-> ScriptTop(eu_state), craziness |-> cz]]
  /\ pc' = [pc EXCEPT ![s] = "gen_ext_call"]
  /\ eu_state' = ScriptTop(eu_state)
  /\ gens' = gens + 1
  /\ UNCHANGED <<game_meta, country_metrics, external_events, domestic_events,
                 policy_candidates, policy_locks, turn_history, country_snapshots,
                 round_summaries, props, resolves, resets, limits>>

\* moves_clean of the handler: the modifiers are recomputed from the craziness.
MovesClean(moves, craziness_by_actor) ==
  [i \in DOMAIN moves |->
     LET m == moves[i]
         cz == Get(m, "craziness", Get(craziness_by_actor, m.actor, 50))
     IN  [actor |-> m.actor, headline |-> m.headline, quote |-> m.quote, craziness |-> cz,
          modifiers |-> _auto_modifiers_from_craziness(m.actor, cz)]]

RECURSIVE UpsertMoves(_, _, _, _)
UpsertMoves(rows, round_no, moves, i) ==
  IF i > Len(moves) THEN rows
  ELSE UpsertMoves(upsert_external_event(rows, round_no, moves[i].actor, moves[i].headline,
                                         moves[i].modifiers, moves[i].quote, moves[i].craziness),
                   round_no, moves, i + 1)

RECURSIVE UpsertDomestic(_, _, _, _)
UpsertDomestic(rows, round_no, events, i) ==
  IF i > Len(Countries) THEN rows
  ELSE LET c == Countries[i]
           e == Get(events, c, NullEntry)
       IN  UpsertDomestic(upsert_domestic_event(rows, round_no, c, Get(e, "headline", ""),
                                                Get(e, "details", ""), Get(e, "craziness", 0)),
                          round_no, events, i + 1)

\* generate_external_moves returns; on success the events are replaced, the
\* modifiers applied to the EU state read at the top of the script, and the
\* domestic events of the round cleared before the second oracle call.
GenExternalReturn(s) ==
  /\ pc[s] = "gen_ext_call"
  /\ \E q \in ExternalReplies :
     \E r \in {generate_external_moves(loc[s].craziness, q[1], q[2])} :
       LET round_no == loc[s].round_no
           eu_before == loc[s].eu_before
           moves_clean == MovesClean(r.ret.moves, loc[s].craziness)
           global_context ==
             IF "global_context" \in DOMAIN r.ret THEN r.ret.global_context
             ELSE eu_before.global_context
           eu_after == apply_external_modifiers_to_eu(
                         eu_before, [moves |-> moves_clean, global_context |-> global_context])
       IN  IF ~r.ok
           THEN /\ Fail(s, "external")
                /\ UNCHANGED <<eu_state, external_events, domestic_events>>
           ELSE /\ external_events' =
                     UpsertMoves(clear_external_events(external_events, round_no),
                                 round_no, moves_clean, 1)
                /\ eu_state' = set_eu_state(eu_after)
                /\ domestic_events' = clear_domestic_events(domestic_events, round_no)
                /\ pc' = [pc EXCEPT ![s] = "gen_dom_call"]
                /\ loc' = loc
  /\ UNCHANGED <<game_meta, country_metrics, policy_candidates, policy_locks, turn_history,
                 country_snapshots, round_summaries, gens, props, resolves, resets, limits>>

\* generate_domestic_events returns; on success the events are stored and the
\* phase written.
GenDomesticReturn(s) ==
  /\ pc[s] = "gen_dom_call"
  /\ \E q \in DomesticReplies :
       LET r == generate_domestic_events(CountrySet, q[1], q[2])
           round_no == loc[s].round_no
       IN  IF ~r.ok
           THEN /\ Fail(s, "domestic")
                /\ UNCHANGED <<eu_state, domestic_events, game_meta>>
           ELSE /\ domestic_events' = UpsertDomestic(domestic_events, round_no, r.ret.events, 1)
                /\ game_meta' = set_game_meta(game_meta, round_no, "external_generated")
                /\ eu_state' = ScriptTop(eu_state)
                /\ Finish(s)
  /\ UNCHANGED <<country_metrics, external_events, policy_candidates, policy_locks,
                 turn_history, country_snapshots, round_summaries, gens, props, resolves,
                 resets, limits>>

\* "Runde starten".
ClickPublish(s) ==
  /\ is_gm(s) /\ pc[s] = "idle"
  /\ game_meta.phase # "game_over"
  /\ ~publish_disabled(game_meta.phase, game_meta.round)
  /\ game_meta' = set_game_meta(game_meta, game_meta.round, "actions_published")
  /\ eu_state' = ScriptTop(eu_state)
  /\ UNCHANGED <<country_metrics, external_events, domestic_events, policy_candidates,
                 policy_locks, turn_history, country_snapshots, round_summaries,
                 pc, loc, gens, props, resolves, resets, limits>>


\* _get_candidate_text: the text of the candidate in the locked slot, "" when
\* there is none.
_get_candidate_text(country, domain, slot, round_no) ==
  LET hit == {r \in get_policy_candidates(policy_candidates, round_no, country, domain) :
                r.slot = slot}
  IN  IF hit = {} THEN "" ELSE (CHOOSE r \in hit : TRUE).action_text

\* actions_texts[c]["chosen"]: both locked slots and their texts.
ChosenActions(round_no) ==
  [c \in CountrySet |->
     LET f_slot == get_policy_lock(policy_locks, round_no, c, "foreign")
         d_slot == get_policy_lock(policy_locks, round_no, c, "domestic")
     IN  [f_slot |-> f_slot, f_text |-> _get_candidate_text(c, "foreign", f_slot, round_no),
          d_slot |-> d_slot, d_text |-> _get_candidate_text(c, "domestic", d_slot, round_no)]]

\* "Ergebnis der Runde kalkulieren": script top, guard, the reads before the
\* resolution oracle call.
ClickResolve(s) ==
  /\ is_gm(s) /\ pc[s] = "idle"
  /\ game_meta.phase # "game_over"
  /\ ~resolve_disabled(game_meta.phase, game_meta.round)
  /\ resolves < limits.resolves
  /\ resolves' = resolves + 1
  /\ pc' = [pc EXCEPT ![s] = "res_call"]
  /\ loc' = [loc EXCEPT ![s] =
               [op |-> "resolve", round_no |-> game_meta.round,
                eu_before_resolve |-> ScriptTop(eu_state),
                ext_events |-> get_external_events(external_events, game_meta.round),
                actions_texts |-> ChosenActions(game_meta.round)]]
  /\ eu_state' = ScriptTop(eu_state)
  /\ UNCHANGED <<game_meta, country_metrics, external_events, domestic_events,
                 policy_candidates, policy_locks, turn_history, country_snapshots,
                 round_summaries, gens, props, resets, limits>>

\* eu_after of the handler: cohesion delta, narrative, then the passive decay.
ResolvedEU(eu_before_resolve, result) ==
  decay_pressures(
    [eu_before_resolve EXCEPT
       !.cohesion = @ + Get(result.eu, "kohaesion_delta", 0),
       !.global_context = Get(result.eu, "global_context", @)])

RECURSIVE SnapshotAll(_, _, _, _, _)
SnapshotAll(rows, round_no, all_metrics, win_eval, i) ==
  IF i > Len(Countries) THEN rows
  ELSE LET c == Countries[i]
       IN  SnapshotAll(upsert_country_snapshot(rows, round_no, c, all_metrics[c],
                                               progress_from_conditions(win_eval[c].results),
                                               win_eval[c].is_winner),
                       round_no, all_metrics, win_eval, i + 1)

get_max_snapshot_round(rows) ==
  IF rows = {} THEN -1
  ELSE CHOOSE n \in {r.round : r \in rows} : \A r \in rows : r.round <= n

\* The baseline snapshot of round_no - 1, written when the snapshot table is
\* empty; it is taken after set_eu_state, from the rows as they are then.
BaselineSnapshots(rows, round_no, eu_now) ==
  LET all_metrics_before == load_all_country_metrics(country_metrics, CountrySet)
      need_baseline == get_max_snapshot_round(rows) = -1 /\ round_no >= 1
  IN  IF need_baseline
      THEN SnapshotAll(rows, round_no - 1, all_metrics_before,
                       evaluate_all_countries(all_metrics_before, eu_now, COUNTRY_DEFS), 1)
      ELSE rows

\* resolve_round_all_countries returns; on success the EU state is written and
\* the baseline snapshot taken, then the per-country loop starts.
ResolveReturn(s) ==
  /\ pc[s] = "res_call"
  /\ \E q \in ResolveReplies :
       LET r == resolve_round_all_countries(CountrySet, loc[s].ext_events, q[1], q[2])
           eu_after == ResolvedEU(loc[s].eu_before_resolve, r.ret)
       IN  IF ~r.ok
           THEN /\ Fail(s, "resolve")
                /\ UNCHANGED <<eu_state, country_snapshots>>
           ELSE /\ eu_state' = set_eu_state(eu_after)
                /\ country_snapshots' =
                     BaselineSnapshots(country_snapshots, loc[s].round_no, set_eu_state(eu_after))
                /\ pc' = [pc EXCEPT ![s] = "res_add"]
                /\ loc' = [loc EXCEPT ![s] =
                             [op |-> "resolve", round_no |-> loc[s].round_no,
                              actions_texts |-> loc[s].actions_texts,
                              result |-> r.ret, i |-> 1,
                              global_context |-> eu_after.global_context]]
  /\ UNCHANGED <<game_meta, country_metrics, external_events, domestic_events,
                 policy_candidates, policy_locks, turn_history, round_summaries, gens,
                 props, resolves, resets, limits>>

\* d = result["laender"].get(c) or {}
CountryDeltas(result, c) == Get(result.laender, c, NullEntry)

\* apply_country_deltas, first commit, for the next country of the loop.
ResolveAdd(s) ==
  /\ pc[s] = "res_add"
  /\ LET c == Countries[loc[s].i]
     IN  country_metrics' =
           [country_metrics EXCEPT
              ![c] = apply_country_deltas_add(@, CountryDeltas(loc[s].result, c))]
  /\ pc' = [pc EXCEPT ![s] = "res_clamp"]
  /\ UNCHANGED <<game_meta, eu_state, external_events, domestic_events, policy_candidates,
                 policy_locks, turn_history, country_snapshots, round_summaries,
                 loc, gens, props, resolves, resets, limits>>

\* apply_country_deltas: the row is read back for the clamp.
ResolveClampRead(s) ==
  /\ pc[s] = "res_clamp"
  /\ pc' = [pc EXCEPT ![s] = "res_clamp_write"]
  /\ loc' = [loc EXCEPT ![s] =
               [op |-> "resolve", round_no |-> loc[s].round_no,
                actions_texts |-> loc[s].actions_texts, result |-> loc[s].result,
                i |-> loc[s].i, global_context |-> loc[s].global_context,
                row |-> country_metrics[Countries[loc[s].i]]]]
  /\ UNCHANGED <<game_meta, eu_state, country_metrics, external_events, domestic_events,
                 policy_candidates, policy_locks, turn_history, country_snapshots,
                 round_summaries, gens, props, resolves, resets, limits>>

\* apply_country_deltas, second commit: the row read is written back clamped;
\* then insert_turn_history.
ResolveClamp(s) ==
  /\ pc[s] = "res_clamp_write"
  /\ LET c == Countries[loc[s].i]
         t == loc[s].actions_texts[c]
     IN  /\ country_metrics' =
              [country_metrics EXCEPT ![c] = apply_country_deltas_clamp(loc[s].row)]
         /\ turn_history' =
              insert_turn_history(turn_history, c, loc[s].round_no, t,
                                  loc[s].global_context, CountryDeltas(loc[s].result, c))
  /\ IF loc[s].i < Len(Countries)
     THEN /\ pc' = [pc EXCEPT ![s] = "res_add"]
          /\ loc' = [loc EXCEPT ![s] =
                       [op |-> "resolve", round_no |-> loc[s].round_no,
                        actions_texts |-> loc[s].actions_texts, result |-> loc[s].result,
                        i |-> loc[s].i + 1, global_context |-> loc[s].global_context]]
     ELSE /\ pc' = [pc EXCEPT ![s] = "sum_call"]
          /\ loc' = [loc EXCEPT ![s] = [op |-> "resolve", round_no |-> loc[s].round_no]]
  /\ UNCHANGED <<game_meta, eu_state, external_events, domestic_events, policy_candidates,
                 policy_locks, country_snapshots, round_summaries,
                 gens, props, resolves, resets, limits>>

\* The winners in country order.
\* Faulty variant: the winners in reverse order.
RECURSIVE Winners_reversed(_, _)
Winners_reversed(win_eval, i) ==
  IF i > Len(Countries) THEN <<>>
  ELSE Winners_reversed(win_eval, i + 1)
         \o (IF win_eval[Countries[i]].is_winner THEN <<Countries[i]>> ELSE <<>>)

RECURSIVE Winners(_, _)
Winners(win_eval, i) ==
  IF i > Len(Countries) THEN <<>>
  ELSE (IF win_eval[Countries[i]].is_winner THEN <<Countries[i]>> ELSE <<>>)
         \o Winners(win_eval, i + 1)

\* generate_round_summary returns; on success the summary and the snapshots
\* are written, the round's candidates and locks deleted and the phase advanced.
SummaryReturn(s) ==
  /\ pc[s] = "sum_call"
  /\ \E q \in SummaryReplies :
       LET r == generate_round_summary(q[1], q[2])
           round_no == loc[s].round_no
           all_metrics_now == load_all_country_metrics(country_metrics, CountrySet)
           win_eval == evaluate_all_countries(all_metrics_now, eu_state, COUNTRY_DEFS)
           winners == Winners(win_eval, 1)
           meta_after ==
             IF Len(winners) > 0 THEN set_game_over(game_meta, winners[1], round_no)
             ELSE set_game_meta(game_meta, round_no + 1, "setup")
       IN  IF ~r.ok
           THEN /\ Fail(s, "summary")
                /\ UNCHANGED <<game_meta, eu_state, policy_candidates, policy_locks,
                               country_snapshots, round_summaries>>
           ELSE /\ round_summaries' = upsert_round_summary(round_summaries, round_no, r.ret)
                /\ country_snapshots' =
                     SnapshotAll(country_snapshots, round_no, all_metrics_now, win_eval, 1)
                /\ policy_candidates' = clear_round_data(policy_candidates, round_no)
                /\ policy_locks' = clear_round_data(policy_locks, round_no)
                /\ game_meta' = meta_after
                /\ eu_state' = ScriptTop(eu_state)
                /\ Finish(s)
  /\ UNCHANGED <<country_metrics, external_events, domestic_events, turn_history, gens, props,
                 resolves, resets, limits>>

\* "Reset alle" (app.py).
clear_all_events_and_history(rows) == {}

ClickReset(s) ==
  /\ is_gm(s) /\ pc[s] = "idle"
  /\ resets < limits.resets
  /\ country_metrics' = reset_all_countries(country_metrics)
  /\ turn_history' = <<>>
  /\ round_summaries' = {}
  /\ country_snapshots' = {}
  /\ external_events' = clear_all_events_and_history(external_events)
  /\ domestic_events' = clear_all_events_and_history(domestic_events)
  /\ policy_candidates' = clear_all_events_and_history(policy_candidates)
  /\ policy_locks' = clear_all_events_and_history(policy_locks)
  /\ eu_state' = set_eu_state([k \in DOMAIN eu_state |->
                                 IF k = "cohesion" THEN EU_DEFAULT.cohesion
                                 ELSE IF k = "global_context" THEN EU_DEFAULT.global_context
                                 ELSE SeedPressures[k]])
  /\ game_meta' = set_game_meta(clear_game_over(game_meta), 1, "setup")
  /\ resets' = resets + 1
  /\ UNCHANGED <<pc, loc, gens, props, resolves, limits>>


(***************************************************************************)
(* Player flow (ui/panels.render_player_view, _render_domain_block).       *)
(***************************************************************************)
\* The slider default: the aggressiveness of the last candidate, else 55 / 45.
last_aggr(candidates, domain) ==
  IF candidates = {}
  THEN (IF domain = "foreign" THEN DefaultAggrForeign ELSE DefaultAggrDomestic)
  ELSE (CHOOSE r \in candidates : \A q \in candidates : q.slot <= r.slot).aggressiveness

\* gen_disabled of the domain block (is_lock_disabled is passed as False).
block_gen_disabled(already_locked_slot, count) ==
  already_locked_slot # 0 \/ count >= MaxSlots

\* Faulty variant: the lock button stays enabled.
lock_always_enabled(already_locked_slot) == FALSE

\* The aggressiveness slider (0..100): the player leaves it at its default
\* or, in the scenarios that use the slider, moves it to SliderMoved.
SliderMoved == 80
AggrChoices(default) == IF limits.sliders > 0 THEN {default, SliderMoved} ELSE {default}

\* lock_disabled of the domain block.
lock_disabled(already_locked_slot) == already_locked_slot # 0

\* "KI generieren": script top, the phase test of render_player_view, the
\* button guard and the slot computed before the oracle call.
ClickPropose(s, c, d) ==
  /\ pc[s] = "idle"
  /\ c \in effective_countries(s)
  /\ game_meta.phase = "actions_published"
  /\ props < limits.props
  /\ LET round_no == game_meta.round
         candidates == get_policy_candidates(policy_candidates, round_no, c, d)
         count == Cardinality(candidates)
         slot == count_policy_candidates(policy_candidates, round_no, c, d) + 1
     IN  /\ ~block_gen_disabled(get_policy_lock(policy_locks, round_no, c, d), count)
         /\ slot <= MaxSlots
         /\ \E aggressiveness \in AggrChoices(last_aggr(candidates, d)) :
              loc' = [loc EXCEPT ![s] =
                        [op |-> "propose", round_no |-> round_no, country |-> c, domain |-> d,
                         slot |-> slot, aggressiveness |-> aggressiveness]]
  /\ pc' = [pc EXCEPT ![s] = "prop_call"]
  /\ eu_state' = ScriptTop(eu_state)
  /\ props' = props + 1
  /\ UNCHANGED <<game_meta, country_metrics, external_events, domestic_events,
                 policy_candidates, policy_locks, turn_history, country_snapshots,
                 round_summaries, gens, resolves, resets, limits>>

\* Faulty variant: a failed generation stores an empty candidate in its slot.
ProposeReturn_consuming_slot(s) ==
  /\ pc[s] = "prop_call"
  /\ \E q \in PolicyReplies :
       LET r == _generate_policy_candidate(q[1], q[2])
           action_text == IF r.ok THEN Get(r.ret[1], "aktion", "") ELSE ""
           impact == IF r.ok THEN Get(r.ret[1], "folgen", NullEntry) ELSE NullEntry
       IN  /\ policy_candidates' =
                upsert_policy_candidate(policy_candidates, loc[s].round_no, loc[s].country,
                                        loc[s].domain, loc[s].slot, loc[s].aggressiveness,
                                        action_text, impact)
           /\ IF r.ok THEN eu_state' = ScriptTop(eu_state) /\ Finish(s)
              ELSE Fail(s, "policy") /\ UNCHANGED eu_state
  /\ UNCHANGED <<game_meta, country_metrics, external_events, domestic_events, policy_locks,
                 turn_history, country_snapshots, round_summaries, gens, props, resolves,
                 resets, limits>>

\* _generate_policy_candidate returns; on success the candidate is stored in
\* the slot computed before the call.
ProposeReturn(s) ==
  /\ pc[s] = "prop_call"
  /\ \E q \in PolicyReplies :
       LET r == _generate_policy_candidate(q[1], q[2])
           obj == r.ret[1]
       IN  IF ~r.ok
           THEN /\ Fail(s, "policy")
                /\ UNCHANGED <<eu_state, policy_candidates>>
           ELSE /\ policy_candidates' =
                     upsert_policy_candidate(policy_candidates, loc[s].round_no, loc[s].country,
                                             loc[s].domain, loc[s].slot, loc[s].aggressiveness,
                                             Get(obj, "aktion", ""), Get(obj, "folgen", NullEntry))
                /\ eu_state' = ScriptTop(eu_state)
                /\ Finish(s)
  /\ UNCHANGED <<game_meta, country_metrics, external_events, domestic_events, policy_locks,
                 turn_history, country_snapshots, round_summaries, gens, props, resolves,
                 resets, limits>>

\* Faulty variant: any slot number can be locked, with or without a candidate.
ClickLock_any_slot(s, c, d) ==
  /\ pc[s] = "idle"
  /\ c \in effective_countries(s)
  /\ game_meta.phase = "actions_published"
  /\ ~lock_disabled(get_policy_lock(policy_locks, game_meta.round, c, d))
  /\ \E slot \in 1..MaxSlots :
       policy_locks' = lock_policy_slot(policy_locks, game_meta.round, c, d, slot)
  /\ eu_state' = ScriptTop(eu_state)
  /\ UNCHANGED <<game_meta, country_metrics, external_events, domestic_events,
                 policy_candidates, turn_history, country_snapshots, round_summaries,
                 pc, loc, gens, props, resolves, resets, limits>>

\* "Diese Option locken".
ClickLock(s, c, d) ==
  /\ pc[s] = "idle"
  /\ c \in effective_countries(s)
  /\ game_meta.phase = "actions_published"
  /\ LET round_no == game_meta.round
         candidates == get_policy_candidates(policy_candidates, round_no, c, d)
     IN  /\ candidates # {}
         /\ ~lock_disabled(get_policy_lock(policy_locks, round_no, c, d))
         /\ \E chosen \in candidates :
              policy_locks' = lock_policy_slot(policy_locks, round_no, c, d, chosen.slot)
  /\ eu_state' = ScriptTop(eu_state)
  /\ UNCHANGED <<game_meta, country_metrics, external_events, domestic_events,
                 policy_candidates, turn_history, country_snapshots, round_summaries,
                 pc, loc, gens, props, resolves, resets, limits>>

Next ==
  \/ \E s \in Sessions : ClickGenerate(s)
  \/ \E s \in Sessions : GenExternalReturn(s)
  \/ \E s \in Sessions : GenDomesticReturn(s)
  \/ \E s \in Sessions : ClickPublish(s)
  \/ \E s \in Sessions : ClickResolve(s)
  \/ \E s \in Sessions : ResolveReturn(s)
  \/ \E s \in Sessions : ResolveAdd(s)
  \/ \E s \in Sessions : ResolveClampRead(s)
  \/ \E s \in Sessions : ResolveClamp(s)
  \/ \E s \in Sessions : SummaryReturn(s)
  \/ \E s \in Sessions : ClickReset(s)
  \/ \E s \in Sessions : Dismiss(s)
  \/ \E s \in Sessions, c \in CountrySet, d \in Domains : ClickPropose(s, c, d)
  \/ \E s \in Sessions : ProposeReturn(s)
  \/ \E s \in Sessions, c \in CountrySet, d \in Domains : ClickLock(s, c, d)

Spec == Init /\ [][Next]_vars


(***************************************************************************)
(* The generation pipeline of the six call sites on its own: a call site   *)
(* and the two responses the oracle would give are drawn, and the site's   *)
(* function is run on them.                                                *)
(***************************************************************************)
PipelineSites == {"external", "domestic", "policy", "resolve", "summary", "actions"}

SiteObjs(site) ==
  CASE site = "external" -> ExternalObjs
    [] site = "domestic" -> DomesticObjs
    [] site = "policy" -> PolicyObjs
    [] site = "resolve" -> ResolveObjs
    [] site = "summary" -> SummaryObjs
    [] site = "actions" -> ActionsObjs

\* A written round-1 event row, which the resolution prompt needs.
SomeExternalEvents ==
  {[round |-> 1, actor |-> "USA", headline |-> "h", modifiers |-> NullEntry,
    quote |-> "q", craziness |-> 50]}

RunPipeline(site, first, repair) ==
  CASE site = "external" ->
         generate_external_moves(CHOOSE cz \in CrazinessChoices : TRUE, first, repair)
    [] site = "domestic" -> generate_domestic_events(CountrySet, first, repair)
    [] site = "policy" -> _generate_policy_candidate(first, repair)
    [] site = "resolve" ->
         resolve_round_all_countries(CountrySet, SomeExternalEvents, first, repair)
    [] site = "summary" -> generate_round_summary(first, repair)
    [] site = "actions" -> generate_actions_for_country(first, repair)

PipelineInit ==
  /\ game_meta = [round |-> 1, phase |-> "setup", winner_country |-> NoWinner, winner_round |-> 0]
  /\ eu_state = ScriptTop([k \in PressureKeys \cup {"cohesion", "global_context"} |->
                             IF k = "cohesion" THEN DefaultCohesion
                             ELSE IF k = "global_context" THEN ""
                             ELSE SeedPressures[k]])
  /\ country_metrics = [c \in CountrySet |-> SeedMetrics(c)]
  /\ external_events = {}
  /\ domestic_events = {}
  /\ policy_candidates = {}
  /\ policy_locks = {}
  /\ turn_history = <<>>
  /\ country_snapshots = {}
  /\ round_summaries = {}
  /\ pc = [s \in Sessions |-> IF s = "gm1" THEN "pipe_call" ELSE "idle"]
  /\ \E site \in PipelineSites :
       \E first \in RawOf(RawKinds, SiteObjs(site)), repair \in RawOf(RawKinds, SiteObjs(site)) :
         loc = [s \in Sessions |->
                  IF s = "gm1"
                  THEN [op |-> "pipeline", site |-> site, first |-> first, repair |-> repair]
                  ELSE NoLocals]
  /\ gens = 0
  /\ props = 0
  /\ resolves = 0
  /\ resets = 0
  /\ limits = [gens |-> 0, props |-> 0, resolves |-> 0, resets |-> 0, sliders |-> 0]

PipelineReturn(s) ==
  /\ pc[s] = "pipe_call"
  /\ pc' = [pc EXCEPT ![s] = "pipe_done"]
  /\ loc' = [loc EXCEPT ![s] =
               [op |-> "pipeline", site |-> loc[s].site, first |-> loc[s].first,
                repair |-> loc[s].repair,
                result |-> RunPipeline(loc[s].site, loc[s].first, loc[s].repair)]]
  /\ UNCHANGED <<game_meta, eu_state, country_metrics, external_events, domestic_events,
                 policy_candidates, policy_locks, turn_history, country_snapshots,
                 round_summaries, gens, props, resolves, resets, limits>>

PipelineNext == \E s \in Sessions : PipelineReturn(s)

SpecPipeline == PipelineInit /\ [][PipelineNext]_vars

(***************************************************************************)
(* The win-condition evaluator on its own: one evaluation of a table of    *)
(* country definitions against a table of metrics, followed by the winner  *)
(* loop of the resolve handler.                                            *)
(***************************************************************************)
\* A country's definition as in countries.py, with an empty win_conditions
\* list, or without the key.
\* A list that uses every operator, and the default one.
OperatorConditions ==
  <<[metric |-> "economy", op |-> ">", value |-> 69],
    [metric |-> "stability", op |-> "<", value |-> 100],
    [metric |-> "eu_cohesion", op |-> "==", value |-> 60],
    [metric |-> "military", op |-> "<=", value |-> 65],
    [metric |-> "public_approval", value |-> 55]>>

DefsVariants(c) ==
  { COUNTRY_DEFS[c],
    [COUNTRY_DEFS[c] EXCEPT !.win_conditions = <<>>],
    [COUNTRY_DEFS[c] EXCEPT !.win_conditions = OperatorConditions],
    SeedMetrics(c) }

\* Tables of definitions; a country may have no entry at all.
WinDefTables ==
  {t \in UNION {[D -> UNION {DefsVariants(c) : c \in CountrySet}] : D \in SUBSET CountrySet} :
     \A c \in DOMAIN t : t[c] \in DefsVariants(c)}

WinMetricRows(c) ==
  {SeedMetrics(c), [k \in MetricKeys |-> 100], [k \in MetricKeys |-> 0]}

WinMetricTables ==
  {t \in [CountrySet -> UNION {WinMetricRows(c) : c \in CountrySet}] :
     \A c \in CountrySet : t[c] \in WinMetricRows(c)}

WinCohesions == {0, 45, 60, 80, 100}

WinInit ==
  /\ game_meta = [round |-> 1, phase |-> "setup", winner_country |-> NoWinner, winner_round |-> 0]
  /\ \E cohesion \in WinCohesions :
       eu_state = [k \in PressureKeys \cup {"cohesion", "global_context"} |->
                     IF k = "cohesion" THEN cohesion
                     ELSE IF k = "global_context" THEN EU_DEFAULT.global_context
                     ELSE SeedPressures[k]]
  /\ country_metrics \in WinMetricTables
  /\ external_events = {}
  /\ domestic_events = {}
  /\ policy_candidates = {}
  /\ policy_locks = {}
  /\ turn_history = <<>>
  /\ country_snapshots = {}
  /\ round_summaries = {}
  /\ pc = [s \in Sessions |-> IF s = "gm1" THEN "win_call" ELSE "idle"]
  /\ \E country_defs \in WinDefTables :
       loc = [s \in Sessions |->
                IF s = "gm1" THEN [op |-> "win", country_defs |-> country_defs] ELSE NoLocals]
  /\ gens = 0
  /\ props = 0
  /\ resolves = 0
  /\ resets = 0
  /\ limits = [gens |-> 0, props |-> 0, resolves |-> 0, resets |-> 0, sliders |-> 0]

WinReturn(s) ==
  /\ pc[s] = "win_call"
  /\ LET all_metrics_now == load_all_country_metrics(country_metrics, CountrySet)
         win_eval == evaluate_all_countries(all_metrics_now, eu_state, loc[s].country_defs)
     IN  /\ pc' = [pc EXCEPT ![s] = "win_done"]
         /\ loc' = [loc EXCEPT ![s] =
                      [op |-> "win", country_defs |-> loc[s].country_defs,
                       win_eval |-> win_eval, winners |-> Winners(win_eval, 1)]]
  /\ UNCHANGED <<game_meta, eu_state, country_metrics, external_events, domestic_events,
                 policy_candidates, policy_locks, turn_history, country_snapshots,
                 round_summaries, gens, props, resolves, resets, limits>>

WinNext == \E s \in Sessions : WinReturn(s)

SpecWin == WinInit /\ [][WinNext]_vars

(***************************************************************************)
(* The handlers on the store of a later round: one game master generates   *)
(* or resolves a round whose pressure channels are near the ends of the    *)
(* 0..100 scale, as they are after many rounds of modifiers and decay.     *)
(***************************************************************************)
PressureLevels == {0, 1, 2, 3, 50, 98, 99, 100}

\* The store of a round in setup, or of a published round in which every
\* block has a candidate in slot 1 and its lock.
LaterExternalEvents ==
  LET cz == CHOOSE x \in CrazinessChoices : TRUE
  IN  {[round |-> 1, actor |-> a, headline |-> "h",
        modifiers |-> _auto_modifiers_from_craziness(a, cz[a]), quote |-> "q",
        craziness |-> cz[a]] : a \in ActorSet}

LaterDomesticEvents ==
  {[round |-> 1, country |-> c, headline |-> "h", details |-> "d", craziness |-> 40] :
     c \in CountrySet}

LaterCandidates ==
  {[round |-> 1, country |-> c, domain |-> d, slot |-> 1,
    aggressiveness |-> IF d = "foreign" THEN DefaultAggrForeign ELSE DefaultAggrDomestic,
    action_text |-> "plan", impact |-> VariantObj.folgen] : c \in CountrySet, d \in Domains}

LaterLocks ==
  {[round |-> 1, country |-> c, domain |-> d, slot |-> 1] : c \in CountrySet, d \in Domains}

LaterInit ==
  /\ \E phase \in {"setup", "actions_published"} :
       /\ game_meta = [round |-> 1, phase |-> phase, winner_country |-> NoWinner,
                       winner_round |-> 0]
       /\ external_events = IF phase = "setup" THEN {} ELSE LaterExternalEvents
       /\ domestic_events = IF phase = "setup" THEN {} ELSE LaterDomesticEvents
       /\ policy_candidates = IF phase = "setup" THEN {} ELSE LaterCandidates
       /\ policy_locks = IF phase = "setup" THEN {} ELSE LaterLocks
  /\ \E a \in PressureLevels, b \in PressureLevels :
       eu_state = [k \in PressureKeys \cup {"cohesion", "global_context"} |->
                     IF k = "cohesion" THEN DefaultCohesion
                     ELSE IF k = "global_context" THEN EU_DEFAULT.global_context
                     ELSE IF k \in {"threat_level", "frontline_pressure"} THEN a
                     ELSE b]
  /\ country_metrics = [c \in CountrySet |-> SeedMetrics(c)]
  /\ turn_history = <<>>
  /\ country_snapshots = {}
  /\ round_summaries = {}
  /\ pc = [s \in Sessions |-> "idle"]
  /\ loc = [s \in Sessions |-> NoLocals]
  /\ gens = 0
  /\ props = 0
  /\ resolves = 0
  /\ resets = 0
  /\ limits = [gens |-> 1, props |-> 0, resolves |-> 1, resets |-> 0, sliders |-> 0]

LaterNext ==
  \/ ClickGenerate("gm1")
  \/ GenExternalReturn("gm1")
  \/ GenDomesticReturn("gm1")
  \/ ClickResolve("gm1")
  \/ ResolveReturn("gm1")
  \/ ResolveAdd("gm1")
  \/ ResolveClampRead("gm1")
  \/ ResolveClamp("gm1")
  \/ SummaryReturn("gm1")
  \/ Dismiss("gm1")

SpecLater == LaterInit /\ [][LaterNext]_vars


(***************************************************************************)
(* Properties.                                                             *)
(***************************************************************************)
\* Positions of a resolve handler after its resolution oracle call returned
\* and the EU state was written.
ResolveWritePcs == {"res_add", "res_clamp", "res_clamp_write", "sum_call"}

\* Positions at which a handler waits for the oracle.
OraclePcs == {"gen_ext_call", "gen_dom_call", "prop_call", "res_call", "sum_call"}

RowsOf(country, round_no) ==
  {i \in DOMAIN turn_history :
     turn_history[i].country = country /\ turn_history[i].round = round_no}

\* C1: when two sessions trigger the resolution of the same round concurrently,
\* only one of them performs its side effects: no two sessions are ever both past
\* the EU-state write of a resolution of the same round.
C1_ResolutionAppliedOnce ==
  \A s \in Sessions, t \in Sessions :
    (s # t /\ pc[s] \in ResolveWritePcs /\ pc[t] \in ResolveWritePcs)
      => loc[s].round_no # loc[t].round_no

\* C1, the race: both game masters have applied the deltas of round 1 and
\* inserted its history rows, so every country has two rows for the round.
C1_BothResolversApplied ==
  /\ pc["gm1"] = "sum_call" /\ pc["gm2"] = "sum_call"
  /\ loc["gm1"].round_no = loc["gm2"].round_no
  /\ \A c \in CountrySet : Cardinality(RowsOf(c, loc["gm1"].round_no)) = 2

PhaseRank(phase) ==
  CASE phase = "setup" -> 0
    [] phase = "external_generated" -> 1
    [] phase = "actions_published" -> 2
    [] phase = "game_over" -> 3

\* C2: within a round the phase never moves back to an earlier phase, and the
\* player phase is entered from the world-generated phase only (a reset, which
\* starts the game again, aside).
C2_PhaseOrder ==
  [][(resets' = resets /\ game_meta'.round = game_meta.round)
       => /\ PhaseRank(game_meta'.phase) >= PhaseRank(game_meta.phase)
          /\ (game_meta'.phase = "actions_published" /\ game_meta.phase # "actions_published")
               => game_meta.phase = "external_generated"]_vars

\* C2, the race: the player phase of the round is open while a world generation
\* started before it is still about to write "external_generated" for that round.
C2_StaleGenerationInPlayerPhase ==
  \E s \in Sessions :
    /\ pc[s] = "gen_dom_call"
    /\ loc[s].round_no = game_meta.round
    /\ game_meta.phase = "actions_published"

LockedBlocks(round_no) ==
  {<<r.country, r.domain>> : r \in {q \in policy_locks : q.round = round_no}}

\* C3: a resolution runs only for a round in which every country holds a lock in
\* both domains: a session at the resolution oracle call read a locked slot for
\* every country and domain when its button was clicked.
C3_ResolveNeedsAllLocks ==
  \A s \in Sessions :
    pc[s] = "res_call" =>
      \A c \in CountrySet :
        loc[s].actions_texts[c].f_slot \in 1..3 /\ loc[s].actions_texts[c].d_slot \in 1..3

\* C3, the case: the player phase is open, some lock is there and some is
\* missing, and the resolve button is disabled.
C3_ResolveRefused ==
  /\ game_meta.phase = "actions_published"
  /\ LockedBlocks(game_meta.round) # {}
  /\ LockedBlocks(game_meta.round) # CountrySet \X Domains
  /\ resolve_disabled(game_meta.phase, game_meta.round)
  /\ \A s \in Sessions : pc[s] = "idle"

InClamp(c) ==
  \E s \in Sessions :
    pc[s] \in {"res_clamp", "res_clamp_write"} /\ Countries[loc[s].i] = c

\* C4: the cohesion is always within [0,100], and so is every metric of a
\* country whenever no apply_country_deltas is under way for it.
C4_MetricsAndCohesionInRange ==
  /\ eu_state.cohesion >= 0 /\ eu_state.cohesion <= 100
  /\ \A c \in CountrySet :
       ~InClamp(c) =>
         \A k \in MetricKeys : country_metrics[c][k] >= 0 /\ country_metrics[c][k] <= 100

\* C4, the case: a resolution with deltas of +150 and a cohesion delta of +120
\* has been applied and the values sit at the upper end.
C4_ClampedAtUpperEnd ==
  /\ eu_state.cohesion = 100
  /\ \A c \in CountrySet : \A k \in MetricKeys : country_metrics[c][k] = 100
  /\ Len(turn_history) = Len(Countries)
  /\ \A s \in Sessions : pc[s] = "idle"

\* What a step leaves of the store when it only runs the top of the script.
OnlyScriptTop ==
  /\ eu_state' = ScriptTop(eu_state)
  /\ UNCHANGED <<game_meta, country_metrics, external_events, domestic_events,
                 policy_candidates, policy_locks, turn_history, country_snapshots,
                 round_summaries>>

\* C5: an operation whose oracle call fails leaves the store as it was before
\* the operation started.  Every oracle call can fail, so this says that no
\* handler has written anything by the time it issues an oracle call.
C5_NoWriteBeforeOracleCall ==
  [][\A s \in Sessions :
       (pc'[s] \in OraclePcs /\ pc'[s] # pc[s]) => OnlyScriptTop]_vars

\* C5, the case: the summary oracle failed after the resolution wrote the EU
\* state, the metrics and the history rows, and the round is still in the
\* player phase.
C5_SummaryFailedAfterWrites ==
  \E s \in Sessions :
    /\ pc[s] = "failed" /\ loc[s].site = "summary"
    /\ \A c \in CountrySet : Cardinality(RowsOf(c, loc[s].round_no)) = 1
    /\ game_meta.phase = "actions_published"
    /\ game_meta.round = loc[s].round_no

ValidResolution(obj) ==
  /\ "eu" \in DOMAIN obj /\ "laender" \in DOMAIN obj
  /\ CountrySet \subseteq DOMAIN obj.laender

\* C6: the resolve handler writes nothing before its oracle call, and the step
\* on which the call returns either fails and leaves the store as it is, or
\* carries a result that has 'eu', 'laender' and every country.
C6_ResolveWritesOnlyValidated ==
  [][\A s \in Sessions :
       /\ (pc[s] = "idle" /\ pc'[s] = "res_call") => OnlyScriptTop
       /\ (pc[s] = "res_call" /\ pc'[s] # "res_call") =>
            \/ pc'[s] = "failed" /\ store' = store
            \/ pc'[s] = "res_add" /\ ValidResolution(loc'[s].result)]_vars

\* C6, the case: a resolution was refused by the validation and nothing of the
\* round has been written.
C6_ResolveFailedNothingWritten ==
  \E s \in Sessions :
    /\ pc[s] = "failed" /\ loc[s].site = "resolve"
    /\ turn_history = <<>> /\ country_snapshots = {}
    /\ country_metrics = [c \in CountrySet |-> SeedMetrics(c)]
    /\ game_meta.phase = "actions_published"

\* The response alone passes the parse and the validation of the site.
SiteValid(site, raw) == RunPipeline(site, raw, NoReply).ok

\* The result of the site tells that the repair ran.
RecordsRepair(site, result) ==
  site = "actions" /\ result.ok /\ result.ret[3]

\* C7: at every call site, an invalid first response followed by a valid repair
\* response makes the call succeed, and its result records that the repair ran.
C7_RepairedAndRecorded ==
  \A s \in Sessions :
    (pc[s] = "pipe_done" /\ ~SiteValid(loc[s].site, loc[s].first)
       /\ SiteValid(loc[s].site, loc[s].repair))
      => loc[s].result.ok /\ RecordsRepair(loc[s].site, loc[s].result)

\* C7, the case: the first response of the resolution oracle parses and lacks
\* 'eu', the repair response would be valid, and the call has failed.
C7_ParsedInvalidNotRepaired ==
  \E s \in Sessions :
    /\ pc[s] = "pipe_done" /\ loc[s].site = "resolve"
    /\ parse_json_maybe(loc[s].first).ok
    /\ ~SiteValid("resolve", loc[s].first)
    /\ SiteValid("resolve", loc[s].repair)
    /\ ~loc[s].result.ok

\* C8: no (round, country, domain) ever holds more than three candidates, their
\* slots are among 1, 2, 3, and a candidate generation under way was given one
\* of these slots.
C8_AtMostThreeCandidates ==
  /\ \A r \in policy_candidates :
       /\ r.slot \in 1..3
       /\ Cardinality(get_policy_candidates(policy_candidates, r.round, r.country, r.domain)) <= 3
  /\ \A s \in Sessions : pc[s] = "prop_call" => loc[s].slot \in 1..3

\* C8, the case: a domain holds the slots 1, 2 and 3, and a fourth generation
\* is refused.
C8_ThreeSlotsFilled ==
  \E c \in CountrySet, d \in Domains :
    /\ {r.slot : r \in get_policy_candidates(policy_candidates, game_meta.round, c, d)} = {1, 2, 3}
    /\ game_meta.phase = "actions_published"
    /\ \A s \in Sessions : pc[s] = "idle" /\ ~ENABLED ClickPropose(s, c, d)

SameBlock(r, q) == r.round = q.round /\ r.country = q.country /\ r.domain = q.domain

NoWinConditions(c, country_defs) ==
  \/ c \notin DOMAIN country_defs
  \/ "win_conditions" \notin DOMAIN country_defs[c]
  \/ country_defs[c].win_conditions = <<>>

C11_NoConditionsNeverWins ==
  \A s \in Sessions :
    pc[s] = "win_done" =>
      \A c \in CountrySet :
        NoWinConditions(c, loc[s].country_defs) =>
          /\ ~loc[s].win_eval[c].is_winner
          /\ \A i \in DOMAIN loc[s].winners : loc[s].winners[i] # c

\* C11, the case: every metric is 100 and cohesion is 100, Germany has an empty
\* list and is no winner while Italy, with its conditions met, is.
C11_AllHundredNoConditions ==
  /\ pc["gm1"] = "win_done"
  /\ \A c \in CountrySet : \A k \in MetricKeys : country_metrics[c][k] = 100
  /\ eu_state.cohesion = 100
  /\ "Germany" \in DOMAIN loc["gm1"].country_defs
  /\ "win_conditions" \in DOMAIN loc["gm1"].country_defs["Germany"]
  /\ loc["gm1"].country_defs["Germany"].win_conditions = <<>>
  /\ loc["gm1"].winners = <<"Italy">>

\* C12: every reset, from whatever state it is clicked in, leaves the game in
\* round 1, phase setup, every country at the seed values of its definition,
\* and no candidate, lock, external event or domestic event of any round.
C12_ResetRestoresStart ==
  [][resets' = resets + 1 =>
       /\ game_meta'.round = 1 /\ game_meta'.phase = "setup"
       /\ \A c \in CountrySet : \A k \in MetricKeys :
            country_metrics'[c][k] = COUNTRY_DEFS[c][k]
       /\ policy_candidates' = {} /\ policy_locks' = {}
       /\ external_events' = {} /\ domestic_events' = {}]_vars

\* C12, the case: the reset came after a resolution had applied its deltas and
\* inserted its history rows (the resolving session still waits for the
\* summary), and the store is back at the start.
C12_ResetAfterResolution ==
  /\ resets = 1
  /\ \E s \in Sessions : pc[s] = "sum_call"
  /\ turn_history = <<>>
  /\ game_meta.round = 1 /\ game_meta.phase = "setup"
  /\ \A c \in CountrySet : country_metrics[c] = SeedMetrics(c)
  /\ policy_candidates = {} /\ policy_locks = {}

\* C13: in every reachable state the phase is one of the fixed phases and a
\* winner is recorded only while the phase is game_over.
C13_WinnerOnlyInGameOver ==
  /\ game_meta.phase \in Phases
  /\ game_meta.winner_country # NoWinner => game_meta.phase = "game_over"

\* C13, the race: a second resolution of round 1 that finds no winner has
\* written round 2, setup, over a finished game, and the winner is still recorded.
C13_WinnerLeftInSetup ==
  /\ game_meta.phase = "setup" /\ game_meta.round = 2
  /\ game_meta.winner_country \in CountrySet
  /\ game_meta.winner_round = 1
  /\ \A s \in Sessions : pc[s] = "idle"

\* C14: once the phase is game_over, only the reset changes the game meta, the
\* EU state, the country metrics, the candidates or the locks.
C14_GameOverIsTerminal ==
  [][game_meta.phase = "game_over" =>
       \/ resets' = resets + 1
       \/ UNCHANGED <<game_meta, eu_state, country_metrics, policy_candidates,
                      policy_locks>>]_vars

\* C14, the race: the game is over with Italy recorded as the winner of round 1,
\* and a resolution that was waiting for the oracle at that time has since
\* written a cohesion under which Italy's conditions no longer hold.
C14_ResolutionWroteAfterGameOver ==
  /\ game_meta.phase = "game_over"
  /\ game_meta.winner_country = "Italy"
  /\ eu_state.cohesion < 60
  /\ \E s \in Sessions : pc[s] = "res_add"

\* C15: a world generation for a round whose external events are already
\* stored leaves the EU state as it is: the modifiers of a round's events are
\* applied to cohesion and pressures once.
C15_RegenerationKeepsWorldState ==
  [][\A s \in Sessions :
       (/\ pc[s] = "gen_ext_call" /\ pc'[s] = "gen_dom_call"
        /\ have_external(loc[s].round_no))
         => eu_state' = eu_state]_vars

\* C15, the case: round 1 was generated twice, one run after the other, with no
\* reset in between, and the threat level carries the modifiers of both runs
\* (each run adds 2 with the sliders of CrazinessChoices).
C15_ModifiersAppliedTwice ==
  /\ gens = 2 /\ resets = 0
  /\ game_meta.round = 1 /\ game_meta.phase = "external_generated"
  /\ \A s \in Sessions : pc[s] = "idle"
  /\ eu_state.threat_level = SeedPressures.threat_level + 2 + 2

\* C16: while the phase of round r is external_generated or actions_published,
\* the store holds exactly one external event of round r for each of the three
\* actors and exactly one domestic event of round r for each country.
C16_WorldContentComplete ==
  game_meta.phase \in {"external_generated", "actions_published"} =>
    /\ \A a \in ActorSet :
         Cardinality({e \in external_events :
                        e.round = game_meta.round /\ e.actor = a}) = 1
    /\ \A c \in CountrySet :
         Cardinality({e \in domestic_events :
                        e.round = game_meta.round /\ e.country = c}) = 1

\* C16, the race: the round is published and no handler is running, and the
\* domestic events of the round are gone: a second generation, started before
\* the publication, cleared them and then failed at the domestic oracle call.
C16_PublishedWithoutDomesticEvents ==
  /\ game_meta.phase = "actions_published"
  /\ \A s \in Sessions : pc[s] = "idle"
  /\ {e \in domestic_events : e.round = game_meta.round} = {}
  /\ Cardinality({e \in external_events : e.round = game_meta.round}) = NumExternalActors

\* The object the validation of a call site looks at: the first response when
\* it parses, else the repair response.
Parsed(first, repair) ==
  IF first.kind \in {"json", "fenced"} THEN first ELSE repair

\* C17: a resolution response that has 'eu' and 'laender' and omits a country
\* makes resolve_round_all_countries fail; a call that succeeds returns the
\* oracle's object unchanged, with an entry for every country.
C17_MissingCountryFails ==
  \A s \in Sessions :
    (pc[s] = "pipe_done" /\ loc[s].site = "resolve") =>
      LET raw == Parsed(loc[s].first, loc[s].repair)
      IN  /\ (/\ raw.kind \in {"json", "fenced"}
              /\ "laender" \in DOMAIN raw.obj
              /\ CountrySet \ DOMAIN raw.obj.laender # {})
               => ~loc[s].result.ok
          /\ loc[s].result.ok =>
               /\ loc[s].result.ret = raw.obj
               /\ CountrySet \subseteq DOMAIN loc[s].result.ret.laender

\* C17, the case: the response parses, has 'eu' and deltas for Germany, none
\* for Italy, and the call has failed.
C17_ItalyOmitted ==
  \E s \in Sessions :
    /\ pc[s] = "pipe_done" /\ loc[s].site = "resolve"
    /\ loc[s].first.kind = "json"
    /\ "eu" \in DOMAIN loc[s].first.obj /\ "laender" \in DOMAIN loc[s].first.obj
    /\ DOMAIN loc[s].first.obj.laender = {"Germany"}
    /\ ~loc[s].result.ok

\* The 'events' object of a local-event response is there and is an object.
HasEventsObject(raw) ==
  /\ raw.kind \in {"json", "fenced"}
  /\ "events" \in DOMAIN raw.obj
  /\ "json_text" \notin DOMAIN raw.obj.events

\* Every entry the response does give is an object whose craziness, if any,
\* is a number.
EntriesWellFormed(raw) ==
  \A c \in CountrySet \cap DOMAIN raw.obj.events :
    LET e == raw.obj.events[c]
    IN  /\ "json_text" \notin DOMAIN e
        /\ "craziness" \in DOMAIN e => e.craziness \in {"", "0", "40"}

ConditionHolds(cond, c) ==
  LET v == IF cond.metric = "eu_cohesion" THEN eu_state.cohesion
           ELSE country_metrics[c][cond.metric]
  IN  IF cond.op = ">=" THEN v >= cond.value ELSE v <= cond.value

AllConditionsHold(c) ==
  LET conds == COUNTRY_DEFS[c].win_conditions
  IN  Len(conds) > 0 /\ \A i \in DOMAIN conds : ConditionHolds(conds[i], c)

\* C20: a resolution that completes while some country's win conditions all
\* hold on the store sets the phase to game_over and records the first such
\* country in definition order, with the resolved round as winner_round; a
\* resolution that completes while no country wins sets the phase to setup.
C20_FirstWinnerRecorded ==
  [][\A s \in Sessions :
       (pc[s] = "sum_call" /\ pc'[s] = "idle") =>
         IF \E c \in CountrySet : AllConditionsHold(c)
         THEN /\ game_meta'.phase = "game_over"
              /\ game_meta'.winner_round = loc[s].round_no
              /\ \E i \in DOMAIN Countries :
                   /\ game_meta'.winner_country = Countries[i]
                   /\ AllConditionsHold(Countries[i])
                   /\ \A j \in 1..(i - 1) : ~AllConditionsHold(Countries[j])
         ELSE game_meta'.phase = "setup"]_vars

\* C20, the case: round 1 was resolved with both countries meeting all
\* their conditions, and the game is over with Germany, the first in
\* definition order, recorded as the winner of round 1.
C20_GermanyBeforeItaly ==
  /\ \A s \in Sessions : pc[s] = "idle"
  /\ resolves = 1
  /\ AllConditionsHold("Germany") /\ AllConditionsHold("Italy")
  /\ Countries[1] = "Germany"
  /\ game_meta.phase = "game_over"
  /\ game_meta.winner_country = "Germany"
  /\ game_meta.winner_round = 1

\* What a win condition says of a country's metrics and the EU's cohesion.
ConditionSays(cond, metrics, cohesion) ==
  LET current == IF cond.metric = "eu_cohesion" THEN cohesion ELSE metrics[cond.metric]
      op == IF "op" \in DOMAIN cond THEN cond.op ELSE ">="
  IN  \/ op = ">=" /\ current >= cond.value
      \/ op = "<=" /\ current <= cond.value
      \/ op = ">" /\ current > cond.value
      \/ op = "<" /\ current < cond.value
      \/ op = "==" /\ current = cond.value

StoreVars ==
  <<game_meta, eu_state, country_metrics, external_events, domestic_events,
    policy_candidates, policy_locks, turn_history, country_snapshots, round_summaries>>

\* C21: for a country with a non-empty list of win conditions the evaluation
\* gives one result per condition, each the comparison of the country's
\* metric (the EU's cohesion for eu_cohesion) with the threshold under the
\* condition's operator, and is_winner exactly when all of them hold; the
\* evaluation leaves the store as it was.
C21_WinnerIffAllConditionsHold ==
  [][\A s \in Sessions :
       (pc[s] = "win_call" /\ pc'[s] = "win_done") =>
         /\ UNCHANGED StoreVars
         /\ \A c \in CountrySet :
              ~NoWinConditions(c, loc[s].country_defs) =>
                LET conds == loc[s].country_defs[c].win_conditions
                    res == loc'[s].win_eval[c]
                IN  /\ DOMAIN res.results = DOMAIN conds
                    /\ \A i \in DOMAIN conds :
                         res.results[i] <=>
                           ConditionSays(conds[i], country_metrics[c], eu_state.cohesion)
                    /\ res.is_winner <=>
                         \A i \in DOMAIN conds :
                           ConditionSays(conds[i], country_metrics[c], eu_state.cohesion)]_vars

\* C21, the case: Italy is evaluated on its seed metrics and cohesion 60
\* against the list with every operator and wins; Germany, evaluated against
\* the same list with every metric at 100, fails the strict "<" on the
\* boundary and does not win.
C21_EveryOperatorEvaluated ==
  \E s \in Sessions :
    /\ pc[s] = "win_done"
    /\ \A c \in {"Germany", "Italy"} : ~NoWinConditions(c, loc[s].country_defs)
    /\ loc[s].country_defs["Italy"].win_conditions = OperatorConditions
    /\ loc[s].country_defs["Germany"].win_conditions = OperatorConditions
    /\ country_metrics["Italy"] = SeedMetrics("Italy")
    /\ country_metrics["Germany"] = [k \in MetricKeys |-> 100]
    /\ eu_state.cohesion = 60
    /\ loc[s].win_eval["Italy"].is_winner
    /\ ~loc[s].win_eval["Germany"].results[2]
    /\ ~loc[s].win_eval["Germany"].is_winner

\* The candidate a lock points at is in the given candidate table.
LockHasCandidate(l, candidates) ==
  \E r \in candidates :
    /\ r.round = l.round /\ r.country = l.country
    /\ r.domain = l.domain /\ r.slot = l.slot

\* C22: every lock in the store points at a stored candidate of the same
\* round, country and domain, after every step; and a step that adds or
\* moves a lock puts it on a candidate that was stored before the step, so
\* a slot without a candidate is never locked.
C22_LockPointsAtCandidate ==
  [][/\ \A l \in policy_locks' : LockHasCandidate(l, policy_candidates')
     /\ \A l \in policy_locks' \ policy_locks : LockHasCandidate(l, policy_candidates)]_vars

\* C22, the case: in the player phase a block has candidates in slots 1 and
\* 2 and its lock is on slot 2, while another block of the round has a
\* candidate and no lock.
C22_SecondSlotLocked ==
  /\ game_meta.phase = "actions_published"
  /\ \E l \in policy_locks :
       /\ l.slot = 2
       /\ LockHasCandidate(l, policy_candidates)
       /\ LockHasCandidate([l EXCEPT !.slot = 1], policy_candidates)
  /\ \E r \in policy_candidates :
       \A l \in policy_locks : ~(l.round = r.round /\ l.country = r.country /\ l.domain = r.domain)

\* C23: a step that writes a candidate or a lock is taken while the stored
\* phase is actions_published, and what it writes belongs to the stored
\* round.
C23_WritesOnlyInPlayerPhase ==
  [][\A r \in (policy_candidates' \ policy_candidates) \cup (policy_locks' \ policy_locks) :
       /\ game_meta.phase = "actions_published"
       /\ r.round = game_meta.round]_vars

\* C23, the case: a candidate generation was waiting for the oracle when the
\* game was reset; it has finished, and its candidate is in the store while
\* the phase is setup.
C23_CandidateWrittenInSetup ==
  /\ game_meta.phase = "setup"
  /\ resets = 1
  /\ \A s \in Sessions : pc[s] = "idle"
  /\ policy_candidates # {}
  /\ policy_locks = {}

\* The resolution of round n has completed: its summary is stored and the
\* game has left the round's player phase.
ResolutionCompleted(n) ==
  /\ \E x \in round_summaries : x.round = n
  /\ \/ game_meta.round > n
     \/ game_meta.phase = "game_over" /\ game_meta.winner_round = n

\* C24: once the resolution of a round has completed, in setup of the next
\* round or in game_over, the store holds no candidate and no lock of that
\* round.
C24_ResolvedRoundHasNoChoices ==
  \A r \in policy_candidates \cup policy_locks : ~ResolutionCompleted(r.round)

\* C24, the case: round 1 is resolved, the game is in setup of round 2 and
\* no handler is running; a candidate of round 1, whose generation was
\* clicked before the resolution and returned after it, is in the store.
C24_CandidateOutlivesRound ==
  /\ game_meta.phase = "setup" /\ game_meta.round = 2
  /\ ResolutionCompleted(1)
  /\ \A s \in Sessions : pc[s] = "idle"
  /\ \E r \in policy_candidates : r.round = 1
  /\ policy_locks = {}

\* C25 as stated: in setup no event row of an earlier round exists.
C25_NoEventsOfResolvedRound ==
  game_meta.phase = "setup" =>
    \A e \in external_events \cup domestic_events : e.round >= game_meta.round

\* C25 amended: the step that completes a resolution without a winner
\* deletes the candidates and locks of the resolved round and leaves the
\* external and domestic events, those of the resolved round included, as
\* they were.
C25_ResolutionKeepsEvents ==
  [][\A s \in Sessions :
       (pc[s] = "sum_call" /\ pc'[s] = "idle" /\ game_meta'.phase = "setup") =>
         /\ game_meta'.round = loc[s].round_no + 1
         /\ external_events' = external_events
         /\ domestic_events' = domestic_events
         /\ \A r \in policy_candidates' \cup policy_locks' : r.round # loc[s].round_no]_vars

\* C25, the case: round 1 was resolved without a winner; in setup of round 2
\* its three external events and its domestic events are still stored, its
\* candidates and locks are gone.
C25_EventsOfRoundOneInRoundTwo ==
  /\ game_meta.phase = "setup" /\ game_meta.round = 2
  /\ game_meta.winner_country = NoWinner
  /\ \A s \in Sessions : pc[s] = "idle"
  /\ Cardinality({e \in external_events : e.round = 1}) = NumExternalActors
  /\ {e.country : e \in {x \in domestic_events : x.round = 1}} = CountrySet
  /\ policy_candidates = {} /\ policy_locks = {}

\* A handler is waiting for the oracle and the store shows that the game was
\* reset while it waited: a resolution or a proposal, both started in
\* actions_published, finds its own round in setup; a generation waiting for
\* the domestic events finds the external events it has written deleted.
ResetWhileWaiting(s) ==
  \/ /\ pc[s] \in {"res_call", "prop_call"}
     /\ game_meta.phase = "setup" /\ game_meta.round = loc[s].round_no
  \/ /\ pc[s] = "gen_dom_call"
     /\ get_external_events(external_events, loc[s].round_no) = {}

\* C26: a handler that was waiting for the oracle while the game was reset
\* writes nothing when the oracle returns: game state, metrics, events,
\* candidates, locks, history, snapshots and summaries stay as the reset
\* left them (the script run that follows may only restore the default
\* narrative).
C26_NoWriteAfterReset ==
  [][\A s \in Sessions :
       (ResetWhileWaiting(s) /\ pc'[s] # pc[s]) =>
         /\ UNCHANGED <<game_meta, country_metrics, external_events, domestic_events,
                        policy_candidates, policy_locks, turn_history, country_snapshots,
                        round_summaries>>
         /\ eu_state' \in {eu_state, ScriptTop(eu_state)}]_vars

\* C26, the case: a resolution of round 1 was waiting for the oracle when the
\* game was reset; the oracle has returned and the handler has written its
\* baseline snapshots and is about to add its deltas to the seed metrics,
\* with the game in round 1, setup.
C26_ResolutionWritesAfterReset ==
  \E s \in Sessions :
    /\ pc[s] = "res_add" /\ loc[s].i = 1 /\ loc[s].round_no = 1
    /\ resets = 1
    /\ game_meta.phase = "setup" /\ game_meta.round = 1
    /\ \A c \in CountrySet : country_metrics[c] = SeedMetrics(c)
    /\ country_snapshots # {}
    /\ policy_candidates = {} /\ external_events = {}

\* The guard of the button a handler was started with, without the click
\* budget, read on the given game state, locks and candidates: the generate
\* button for a generation, the block's generate button for a proposal, the
\* resolve button for a resolution.
RetryEnabled(position, locals, meta, locks, candidates) ==
  CASE position \in {"gen_ext_call", "gen_dom_call"} ->
         meta.phase # "game_over" /\ ~gen_disabled(meta.phase)
    [] position = "prop_call" ->
         /\ meta.phase = "actions_published"
         /\ ~block_gen_disabled(
               get_policy_lock(locks, meta.round, locals.country, locals.domain),
               count_policy_candidates(candidates, meta.round, locals.country, locals.domain))
    [] position \in {"res_call", "sum_call"} ->
         /\ meta.phase = "actions_published"
         /\ all_policies_locked(locks, meta.round, CountrySet)

DecayOf(k) == IF k \in {"threat_level", "frontline_pressure"} THEN 2 ELSE 3

\* The amount the game master's three moves raise a pressure channel by.
ModifiersOf(k) ==
  LET cz == CHOOSE x \in CrazinessChoices : TRUE
      key == CASE k = "threat_level" -> "threat_delta"
               [] k = "frontline_pressure" -> "frontline_delta"
               [] k = "energy_pressure" -> "energy_delta"
               [] k = "migration_pressure" -> "migration_delta"
               [] k = "disinfo_pressure" -> "disinfo_delta"
               [] k = "trade_war_pressure" -> "trade_war_delta"
  IN  _auto_modifiers_from_craziness("USA", cz["USA"])[key]
        + _auto_modifiers_from_craziness("Russia", cz["Russia"])[key]
        + _auto_modifiers_from_craziness("China", cz["China"])[key]

\* C28: the step of a resolution that writes the EU state lowers threat and
\* frontline by 2 and the four other channels by 3, whatever the oracle
\* answered and also below zero; no other step of the resolution changes a
\* channel; and a generation adds its modifiers to a channel without an
\* upper limit.
C28_DecayOnceUnclamped ==
  [][\A s \in Sessions :
       /\ (pc[s] = "res_call" /\ pc'[s] = "res_add") =>
            \A k \in PressureKeys : eu_state'[k] = eu_state[k] - DecayOf(k)
       /\ (pc[s] \in {"res_add", "res_clamp", "res_clamp_write", "sum_call"}) =>
            \A k \in PressureKeys : eu_state'[k] = eu_state[k]
       /\ (pc[s] = "gen_ext_call" /\ pc'[s] = "gen_dom_call") =>
            \A k \in PressureKeys : eu_state'[k] = eu_state[k] + ModifiersOf(k)]_vars

\* C28, the case: a round whose threat level was 1 and whose energy pressure
\* was 2 has been resolved; the channels are stored as -1, and the game is in
\* setup of round 2.
C28_NegativeAfterDecay ==
  /\ game_meta.round = 2 /\ game_meta.phase = "setup"
  /\ \A s \in Sessions : pc[s] = "idle"
  /\ resolves = 1
  /\ eu_state.threat_level = -1
  /\ eu_state.energy_pressure = -1

\* C29: a proposal that stores its candidate stores it in a slot of its
\* block that was free, the next after the slots in use: every candidate
\* stored before is still there and the block has one candidate more.
C29_SlotsNeverReused ==
  [][\A s \in Sessions :
       (pc[s] = "prop_call" /\ pc'[s] = "idle") =>
         LET block == get_policy_candidates(policy_candidates, loc[s].round_no,
                                            loc[s].country, loc[s].domain)
         IN  /\ \A r \in block : r.slot # loc[s].slot
             /\ loc[s].slot = Cardinality(block) + 1
             /\ policy_candidates \subseteq policy_candidates']_vars

\* C29, the case: two sessions generate a candidate for the same block at the
\* same time; the first has stored its candidate in slot 1, and the second,
\* which computed its slot before that, is about to store its own in slot 1.
C29_SameSlotAssignedTwice ==
  \E s \in Sessions :
    /\ pc[s] = "prop_call" /\ loc[s].slot = 1
    /\ game_meta.phase = "actions_published" /\ game_meta.round = loc[s].round_no
    /\ \E r \in policy_candidates :
         /\ r.round = loc[s].round_no /\ r.country = loc[s].country
         /\ r.domain = loc[s].domain /\ r.slot = loc[s].slot
         /\ r.aggressiveness # loc[s].aggressiveness

\* The oracle calls one generation issues: the first call, and the repair call
\* that the pipeline makes when the first response does not parse.
OracleCalls(first, repair) == ParseOrRepair(first, repair).calls

\* C30: at every call site, a first response that fails the parse or the schema
\* check is followed by exactly one repair call, whose response is validated
\* before the operation fails.
C30_RepairOnEveryInvalidFirst ==
  \A s \in Sessions :
    (pc[s] = "pipe_done" /\ ~SiteValid(loc[s].site, loc[s].first))
      => /\ OracleCalls(loc[s].first, loc[s].repair) = 2
         /\ loc[s].result.ok <=> SiteValid(loc[s].site, loc[s].repair)

\* C30, the case: the first response of the policy oracle parses and fails the
\* schema check, and the operation has failed after that single oracle call,
\* with a repair response at hand that passes the check.
C30_SchemaFailureWithoutRepairCall ==
  \E s \in Sessions :
    /\ pc[s] = "pipe_done" /\ loc[s].site = "policy"
    /\ parse_json_maybe(loc[s].first).ok
    /\ ~SiteValid("policy", loc[s].first)
    /\ OracleCalls(loc[s].first, loc[s].repair) = 1
    /\ SiteValid("policy", loc[s].repair)
    /\ ~loc[s].result.ok

\* A resolution answer with every mandatory value: the cohesion delta and, for
\* each country, an entry with the five metric deltas.
CompleteResolution(result) ==
  /\ "kohaesion_delta" \in DOMAIN result.eu
  /\ \A c \in CountrySet :
       c \in DOMAIN result.laender /\ DeltaKeys \subseteq DOMAIN result.laender[c]

\* C31: a resolution answer with a null country entry, a missing metric delta or
\* no cohesion delta is rejected before any write: every answer a handler is
\* applying is complete.
C31_AppliedResolutionIsComplete ==
  \A s \in Sessions :
    pc[s] \in {"res_add", "res_clamp", "res_clamp_write"}
      => CompleteResolution(loc[s].result)

\* C31, the case: Italy's entry of the answer is null, the EU state has been
\* written and Italy's deltas have been applied as zeros.
C31_NullEntryAppliedAsZero ==
  \E s \in Sessions :
    /\ pc[s] = "res_clamp" /\ Countries[loc[s].i] = "Italy"
    /\ "Italy" \in DOMAIN loc[s].result.laender
    /\ DOMAIN loc[s].result.laender["Italy"] = {}
    /\ CountryDeltas(loc[s].result, "Italy") = NullEntry

\* The number of rounds the game has resolved: the rounds before the current
\* one, or the rounds up to the winning one.
ResolvedRounds ==
  IF game_meta.phase = "game_over" THEN game_meta.winner_round ELSE game_meta.round - 1

\* C32: with no handler running, the history holds one record per country and
\* resolved round, and no other record.
C32_OneRecordPerResolvedRound ==
  (\A s \in Sessions : pc[s] = "idle")
    => \A c \in CountrySet :
         /\ \A n \in 1..ResolvedRounds : Cardinality(RowsOf(c, n)) = 1
         /\ Cardinality({i \in DOMAIN turn_history : turn_history[i].country = c})
              = ResolvedRounds

\* C32, the case: round 1 is resolved, the game is in setup of round 2 with no
\* handler running and no reset clicked, and the history holds two records of
\* round 1 for Germany.
C32_RoundOneRecordedTwice ==
  /\ \A s \in Sessions : pc[s] = "idle"
  /\ game_meta.phase = "setup" /\ game_meta.round = 2 /\ resets = 0
  /\ Cardinality(RowsOf("Germany", 1)) = 2

\* A step in which a resolution handler completes without a winner.
NoWinnerCompletion ==
  \E s \in Sessions :
    pc[s] = "sum_call" /\ pc'[s] = "idle" /\ game_meta'.phase = "setup"

\* C33: the round counter is at least 1; a resolution that finds no winner
\* raises it by exactly 1, a reset sets it to 1 and no other step changes it.
C33_RoundCounterSteps ==
  [][/\ game_meta'.round >= 1
     /\ NoWinnerCompletion => game_meta'.round = game_meta.round + 1
     /\ ~NoWinnerCompletion =>
          \/ game_meta'.round = game_meta.round
          \/ resets' = resets + 1 /\ game_meta'.round = 1]_vars

\* C33, the case: a handler that is resolving round 1 waits for the summary
\* while the game has already moved to setup of round 2.
C33_ResolvingRoundAlreadyLeft ==
  \E s \in Sessions :
    /\ pc[s] = "sum_call" /\ loc[s].round_no = 1
    /\ game_meta.round = 2 /\ game_meta.phase = "setup" /\ resets = 0

\* C34: no stored narrative string is empty: the quote and the headline of an
\* external event, the summary of a round and the details of a domestic event.
C34_NoEmptyNarrativeStored ==
  /\ \A e \in external_events : e.quote # "" /\ e.headline # ""
  /\ \A r \in round_summaries : r.summary # ""
  /\ \A e \in domestic_events : e.details # ""

\* C34, the case: the generation has completed, China's missing quote is stored
\* as the sentinel, and the domestic event that the oracle omitted for Italy is
\* stored with empty details.
C34_EmptyDetailsStored ==
  /\ game_meta.phase = "external_generated"
  /\ \A s \in Sessions : pc[s] = "idle"
  /\ \E e \in external_events : e.actor = "China" /\ e.quote = QuoteSentinel
  /\ \E e \in domestic_events : e.country = "Italy" /\ e.details = ""

\* C35: every committed metric of a country is within [0,100], also between the
\* two commits of apply_country_deltas, so no reader can see another value.
C35_CommittedMetricsInRange ==
  \A c \in CountrySet : \A k \in MetricKeys :
    country_metrics[c][k] >= 0 /\ country_metrics[c][k] <= 100

\* C35, the case: a snapshot taken by one resolution between the two commits of
\* another holds a metric above 100.
C35_SnapshotOfUnclampedSum ==
  \E r \in country_snapshots : \E k \in MetricKeys : r.metrics[k] > 100

\* C36: while a lock of a block stays in the store, the candidates of the
\* block stay as they are: none is added and none is replaced.
C36_LockedBlockFrozen ==
  [][\A l \in policy_locks :
       l \in policy_locks' =>
         get_policy_candidates(policy_candidates', l.round, l.country, l.domain)
           = get_policy_candidates(policy_candidates, l.round, l.country, l.domain)]_vars

\* C36, the case: a block is locked on slot 1 while a generation that computed
\* slot 1 before the lock was written is still waiting for the oracle, with
\* another intensity than the locked candidate has.
C36_GenerationPendingOnLockedSlot ==
  \E s \in Sessions : \E l \in policy_locks :
    /\ pc[s] = "prop_call"
    /\ l.round = loc[s].round_no /\ l.country = loc[s].country
    /\ l.domain = loc[s].domain /\ l.slot = loc[s].slot
    /\ game_meta.phase = "actions_published" /\ game_meta.round = l.round
    /\ \E r \in policy_candidates :
         /\ LockHasCandidate(l, {r})
         /\ r.aggressiveness # loc[s].aggressiveness

\* No resolution of the current round has started: no handler is in a
\* resolution and the round has no history rows.
NoResolutionStarted ==
  /\ \A s \in Sessions : pc[s] \notin {"res_call"} \cup ResolveWritePcs
  /\ \A c \in CountrySet : RowsOf(c, game_meta.round) = {}

\* C37: in the player phase, until a resolution starts, a step either starts
\* the resolution or leaves everything but the candidates and the locks as it
\* is: the EU state, the metrics, the events, the phase and the round.
C37_PlayerPhaseFrame ==
  [][(game_meta.phase = "actions_published" /\ NoResolutionStarted) =>
       \/ \E s \in Sessions : pc'[s] = "res_call"
       \/ UNCHANGED <<game_meta, eu_state, country_metrics, external_events,
                      domestic_events, turn_history, country_snapshots,
                      round_summaries>>]_vars

\* C37, the case: the round is published, no resolution was ever clicked, and
\* a generation that a second game master started before the publication is
\* still waiting for the external oracle.
C37_GenerationPendingInPlayerPhase ==
  /\ game_meta.phase = "actions_published" /\ resolves = 0 /\ resets = 0
  /\ NoResolutionStarted
  /\ \E s \in Sessions : pc[s] = "gen_ext_call" /\ loc[s].round_no = game_meta.round

(***************************************************************************)
(* A cooperative game: one game master who generates once per round,       *)
(* publishes and resolves, and one session per country that proposes one   *)
(* candidate per domain and locks it; every oracle call returns content    *)
(* that passes its validation.  The steps are the handlers of the game.    *)
(***************************************************************************)

\* One generation and one resolution per round, one proposal per block.
LiveBudget ==
  [gens |-> MaxRound, props |-> CandidatesOfARound * MaxRound, resolves |-> MaxRound,
   resets |-> 0, sliders |-> 0]

LiveInit ==
  /\ game_meta = [round |-> 1, phase |-> "setup", winner_country |-> NoWinner, winner_round |-> 0]
  /\ eu_state = ScriptTop([k \in PressureKeys \cup {"cohesion", "global_context"} |->
                             IF k = "cohesion" THEN DefaultCohesion
                             ELSE IF k = "global_context" THEN ""
                             ELSE SeedPressures[k]])
  /\ country_metrics = [c \in CountrySet |-> SeedMetrics(c)]
  /\ external_events = {}
  /\ domestic_events = {}
  /\ policy_candidates = {}
  /\ policy_locks = {}
  /\ turn_history = <<>>
  /\ country_snapshots = {}
  /\ round_summaries = {}
  /\ pc = [s \in Sessions |-> "idle"]
  /\ loc = [s \in Sessions |-> NoLocals]
  /\ gens = 0
  /\ props = 0
  /\ resolves = 0
  /\ resets = 0
  /\ limits = LiveBudget

\* The session that plays a country.
PlayerOf(c) == IF c = "Germany" THEN "p1" ELSE "gm1"

\* The oracle call the session was waiting for has returned valid content.
ReturnedValid(s) == pc'[s] # "failed"

\* The steps of a round played to its end: the game master generates once in
\* setup, publishes and resolves; an empty block gets a proposal from the
\* country's player, who then locks a candidate; oracle calls return valid
\* content.
LiveNext ==
  \/ ClickGenerate("gm1") /\ game_meta.phase = "setup"
  \/ GenExternalReturn("gm1") /\ ReturnedValid("gm1")
  \/ GenDomesticReturn("gm1") /\ ReturnedValid("gm1")
  \/ ClickPublish("gm1")
  \/ \E c \in CountrySet, d \in Domains :
       /\ get_policy_candidates(policy_candidates, game_meta.round, c, d) = {}
       /\ ClickPropose(PlayerOf(c), c, d)
  \/ \E s \in {"gm1", "p1"} : ProposeReturn(s) /\ ReturnedValid(s)
  \/ \E c \in CountrySet, d \in Domains : ClickLock(PlayerOf(c), c, d)
  \/ ClickResolve("gm1")
  \/ ResolveReturn("gm1") /\ ReturnedValid("gm1")
  \/ ResolveAdd("gm1")
  \/ ResolveClampRead("gm1")
  \/ ResolveClamp("gm1")
  \/ SummaryReturn("gm1") /\ ReturnedValid("gm1")

\* Every session goes on: a step that is possible is eventually taken.
SpecLive == LiveInit /\ [][LiveNext]_vars /\ WF_vars(LiveNext)

\* C38: in the cooperative game with an oracle that answers validly, setup of
\* a round leads to setup of the next round or to game_over, and before that
\* some step is always possible.
C38_RoundEventuallyEnds ==
  /\ \A r \in 1..MaxRound :
       (game_meta.phase = "setup" /\ game_meta.round = r)
         ~> \/ game_meta.phase = "game_over"
            \/ game_meta.phase = "setup" /\ game_meta.round = r + 1
  /\ []((game_meta.phase # "game_over" /\ game_meta.round <= MaxRound) => ENABLED LiveNext)

\* C38, the case: round 1 went through generation, publication, locks and a
\* resolution without a winner, and the game is in setup of round 2.
C38_NextRoundReached ==
  /\ game_meta.phase = "setup" /\ game_meta.round = 2
  /\ \E x \in round_summaries : x.round = 1
  /\ \A c \in CountrySet : Cardinality(RowsOf(c, 1)) = 1
  /\ limits = LiveBudget

(***************************************************************************)
(* The baseline snapshot.                                                  *)
(***************************************************************************)
\* The snapshot row of country c for round round_no as it is computed from
\* the metrics and the EU state given.
SnapshotRow(round_no, c, all_metrics, eu) ==
  LET res == evaluate_all_countries(all_metrics, eu, COUNTRY_DEFS)[c]
  IN  [round |-> round_no, country |-> c, metrics |-> all_metrics[c],
       victory_progress |-> progress_from_conditions(res.results),
       is_winner |-> res.is_winner]

\* C39: the rows a returning resolution adds to the snapshot table are added
\* to an empty table only, are the rows of round r-1, and hold each country's
\* metrics and win progress as they were stored before the resolution wrote
\* anything, the progress evaluated with the cohesion stored before it.
C39_BaselineIsPreResolution ==
  [][\A s \in Sessions :
       (pc[s] = "res_call" /\ pc'[s] = "res_add") =>
         LET new == country_snapshots' \ country_snapshots
         IN  /\ new # {} => country_snapshots = {}
             /\ \A x \in new :
                  x = SnapshotRow(loc[s].round_no - 1, x.country,
                                  load_all_country_metrics(country_metrics, CountrySet),
                                  eu_state)]_vars

\* A resolution has just returned and written the baseline of round 0; the
\* stored cohesion already holds the resolution's delta, and Italy's baseline
\* progress is the one of that cohesion, not of the cohesion before it.
C39_BaselineHoldsNewCohesion ==
  \E s \in Sessions :
    /\ pc[s] = "res_add" /\ loc[s].i = 1
    /\ loc[s].round_no = 1
    /\ Get(loc[s].result.eu, "kohaesion_delta", 0) # 0
    /\ \E x \in country_snapshots :
         /\ x.round = 0 /\ x.country = "Italy"
         /\ x = SnapshotRow(0, "Italy",
                            load_all_country_metrics(country_metrics, CountrySet), eu_state)
         /\ x # SnapshotRow(0, "Italy",
                            load_all_country_metrics(country_metrics, CountrySet),
                            [eu_state EXCEPT
                               !.cohesion = @ - Get(loc[s].result.eu, "kohaesion_delta", 0)])

(***************************************************************************)
(* The craziness-to-modifiers mapping on its own: one move of one actor at *)
(* one slider position goes through the loop of the generate handler that  *)
(* computes the modifiers, stores the event and writes the EU state.       *)
(***************************************************************************)
\* The upper end of the craziness sliders and of the clamp of the mapping.
MaxCraziness == 100

\* The modifier keys of the six pressure channels and the channel of each.
PressureDeltaKeys ==
  {"threat_delta", "frontline_delta", "energy_delta", "migration_delta",
   "disinfo_delta", "trade_war_delta"}

ChannelOf(key) ==
  CASE key = "threat_delta" -> "threat_level"
    [] key = "frontline_delta" -> "frontline_pressure"
    [] key = "energy_delta" -> "energy_pressure"
    [] key = "migration_delta" -> "migration_pressure"
    [] key = "disinfo_delta" -> "disinfo_pressure"
    [] key = "trade_war_delta" -> "trade_war_pressure"

ModifiersInit ==
  /\ game_meta = [round |-> 1, phase |-> "setup", winner_country |-> NoWinner, winner_round |-> 0]
  /\ eu_state = ScriptTop([k \in PressureKeys \cup {"cohesion", "global_context"} |->
                             IF k = "cohesion" THEN DefaultCohesion
                             ELSE IF k = "global_context" THEN ""
                             ELSE SeedPressures[k]])
  /\ country_metrics = [c \in CountrySet |-> SeedMetrics(c)]
  /\ external_events = {}
  /\ domestic_events = {}
  /\ policy_candidates = {}
  /\ policy_locks = {}
  /\ turn_history = <<>>
  /\ country_snapshots = {}
  /\ round_summaries = {}
  /\ pc = [s \in Sessions |-> IF s = "gm1" THEN "mod_call" ELSE "idle"]
  /\ \E actor \in ActorSet, craziness \in 0..MaxCraziness :
       loc = [s \in Sessions |->
                IF s = "gm1"
                THEN [op |-> "modifiers", round_no |-> 1,
                      move |-> [actor |-> actor, craziness |-> craziness,
                                headline |-> "h", quote |-> "q"]]
                ELSE NoLocals]
  /\ gens = 0
  /\ props = 0
  /\ resolves = 0
  /\ resets = 0
  /\ limits = [gens |-> 0, props |-> 0, resolves |-> 0, resets |-> 0, sliders |-> 0]

\* The loop body for the move, then apply_external_modifiers_to_eu and set_eu_state.
ModifiersReturn(s) ==
  /\ pc[s] = "mod_call"
  /\ LET moves_clean == MovesClean(<<loc[s].move>>, [a \in {} |-> 0])
         m == moves_clean[1]
         eu_after == apply_external_modifiers_to_eu(
                       eu_state, [moves |-> moves_clean,
                                  global_context |-> eu_state.global_context])
     IN  /\ external_events' =
               upsert_external_event(clear_external_events(external_events, loc[s].round_no),
                                     loc[s].round_no, m.actor, m.headline, m.modifiers,
                                     m.quote, m.craziness)
         /\ eu_state' = set_eu_state(eu_after)
         /\ loc' = [loc EXCEPT ![s] = [op |-> "modifiers", round_no |-> loc[s].round_no,
                                       move |-> loc[s].move, mods |-> m.modifiers]]
  /\ pc' = [pc EXCEPT ![s] = "mod_done"]
  /\ UNCHANGED <<game_meta, country_metrics, domestic_events, policy_candidates,
                 policy_locks, turn_history, country_snapshots, round_summaries, gens,
                 props, resolves, resets, limits>>

ModifiersNext == \E s \in Sessions : ModifiersReturn(s)

SpecModifiers == ModifiersInit /\ [][ModifiersNext]_vars

\* C40: for every actor and every craziness in 0..100 the mapping returns a
\* cohesion delta in -5..0 and six pressure deltas in 0..6; one more point of
\* craziness lowers no pressure delta and raises no cohesion delta; the event
\* stored from it has those modifiers, and the EU state written with it has
\* no pressure channel below and no cohesion above the value before.
C40_ModifiersBoundedMonotone ==
  \A s \in Sessions :
    pc[s] = "mod_done" =>
      LET actor == loc[s].move.actor
          cz == loc[s].move.craziness
          mods == loc[s].mods
          more == _auto_modifiers_from_craziness(actor, cz + 1)
      IN  /\ DOMAIN mods = PressureDeltaKeys \cup {"eu_cohesion_delta"}
          /\ mods.eu_cohesion_delta \in -5..0
          /\ \A k \in PressureDeltaKeys : mods[k] \in 0..6
          /\ cz < MaxCraziness =>
               /\ more.eu_cohesion_delta <= mods.eu_cohesion_delta
               /\ \A k \in PressureDeltaKeys : more[k] >= mods[k]
          /\ \A x \in external_events :
               /\ x.modifiers = mods
               /\ x.modifiers.eu_cohesion_delta <= 0
               /\ \A k \in PressureDeltaKeys : x.modifiers[k] >= 0
          /\ eu_state.cohesion <= DefaultCohesion
          /\ \A k \in PressureDeltaKeys : eu_state[ChannelOf(k)] >= SeedPressures[ChannelOf(k)]

\* Russia at craziness 100 has been stored: cohesion delta -5, threat delta 6.
C40_RussiaAtFullCraziness ==
  /\ pc["gm1"] = "mod_done"
  /\ loc["gm1"].move = [actor |-> "Russia", craziness |-> MaxCraziness,
                        headline |-> "h", quote |-> "q"]
  /\ loc["gm1"].mods.eu_cohesion_delta = -5
  /\ loc["gm1"].mods.threat_delta = 6
  /\ \E x \in external_events : x.actor = "Russia" /\ x.modifiers.threat_delta = 6
  /\ eu_state.threat_level = SeedPressures.threat_level + 6
  /\ eu_state.cohesion = DefaultCohesion - 5

====
